---- MODULE Spec2Model ----
(***************************************************************************)
(* Model of semlint: the run pipeline (runSemlint), rule scoping, the      *)
(* dispatch engine with its backend retry policy, and the diagnostic       *)
(* normalizer.                                                             *)
(*                                                                         *)
(* Text is modelled as the sequence of its lines (what split("\n") yields  *)
(* and join("\n") consumes): the empty string is the one-line text         *)
(* <<BlankLine>>.  A line is a record [k, p, t, n]: its kind, the new-side *)
(* path of a file header, the text of an added line, and the new-file      *)
(* line number of a hunk marker.                                           *)
(***************************************************************************)
EXTENDS Integers, Sequences, FiniteSets, TLC

(* ------------------------------------------------------------------ *)
(* Bounds of the model                                                  *)
(* ------------------------------------------------------------------ *)
MaxFiles == 3
MaxRaw == 2
MaxRules == 2
MaxDiag == 3
MaxScanLines == 4
MaxFilterLines == 4
MaxDiffLines == 4
MaxTimeout == 2
MaxRegexes == 2
MaxSample == 7
MaxOutputLen == 6

(* ------------------------------------------------------------------ *)
(* Paths, globs and picomatch                                           *)
(* ------------------------------------------------------------------ *)
Undefined == "<undefined>"

Paths == <<"docs/readme.md", "src/a.test.ts", "src/a.ts", "src/b.ts">>

Globs == {"src/**/*.ts", "**/*.test.ts", "docs/**/*.md", "**/*.spec.ts"}

\* picomatch's verdict of one glob on one path
globMatches(g, f) ==
  CASE g = "src/**/*.ts"  -> f \in {"src/a.ts", "src/a.test.ts", "src/b.ts"}
    [] g = "**/*.test.ts" -> f = "src/a.test.ts"
    [] g = "docs/**/*.md" -> f = "docs/readme.md"
    [] g = ".env"         -> f = ".env"
    [] g = "!src/a.ts"    -> f # "src/a.ts"   \* a leading ! negates the glob
    [] OTHER              -> FALSE

\* picomatch(globs)(f): some glob of the list matches
picomatch(globs, f) == \E i \in 1..Len(globs) : globMatches(globs[i], f)

(* ------------------------------------------------------------------ *)
(* Rule scoping (filter)                                                *)
(* ------------------------------------------------------------------ *)
\* An optional string list of a rule: the key is present or omitted.
Omitted == [present |-> FALSE, list |-> <<>>]
Given(l) == [present |-> TRUE, list |-> l]

resolveRuleGlobsEmptyInherits(ruleGlobs, globalGlobs) ==
  IF ~ruleGlobs.present \/ ruleGlobs.list = <<>> THEN globalGlobs ELSE ruleGlobs.list

resolveRuleGlobs(ruleGlobs, globalGlobs) ==
  IF ~ruleGlobs.present THEN globalGlobs ELSE ruleGlobs.list

getRuleCandidateFiles(rule, changedFiles, globalIncludeGlobs, globalExcludeGlobs) ==
  LET effectiveIncludeGlobs == resolveRuleGlobs(rule.include_globs, globalIncludeGlobs)
      effectiveExcludeGlobs == resolveRuleGlobs(rule.exclude_globs, globalExcludeGlobs)
      includeMatcher == Len(effectiveIncludeGlobs) > 0
      excludeMatcher == Len(effectiveExcludeGlobs) > 0
      included == IF includeMatcher
                  THEN SelectSeq(changedFiles, LAMBDA f : picomatch(effectiveIncludeGlobs, f))
                  ELSE changedFiles
  IN IF includeMatcher /\ Len(included) = 0 THEN <<>>
     ELSE IF excludeMatcher
          THEN SelectSeq(included, LAMBDA f : ~picomatch(effectiveExcludeGlobs, f))
          ELSE included

(* ------------------------------------------------------------------ *)
(* Diff text and the diff parser                                        *)
(* ------------------------------------------------------------------ *)
Line(k, p, t, n) == [k |-> k, p |-> p, t |-> t, n |-> n]
Hdr(p) == Line("hdr", p, "", 0)       \* diff --git a/p b/p
BadHdr == Line("badhdr", "", "", 0)   \* starts with "diff --git " but has no parsable paths
Hunk(n) == Line("hunk", "", "", n)    \* @@ -1 +n @@
Add(t) == Line("add", "", t, 0)       \* an added line carrying the text t
Ctx == Line("ctx", "", "", 0)         \* a context line
Del == Line("del", "", "", 0)         \* a removed line
BlankLine == Line("blank", "", "", 0) \* the empty line
EmptyText == <<BlankLine>>            \* "" (one empty line)

startsWithDiffGit(line) == line.k \in {"hdr", "badhdr"}

\* the new-side path of a header line, or Undefined
parseDiffGitHeader(line) == IF line.k = "hdr" THEN line.p ELSE Undefined

\* text.trim() === ""
isBlankText(text) == \A i \in 1..Len(text) : text[i].k = "blank"

RECURSIVE joinTexts(_)
\* parts.join("\n") of texts: the lines of all parts; "" for no part
joinTexts(parts) ==
  IF Len(parts) = 0 THEN EmptyText
  ELSE IF Len(parts) = 1 THEN parts[1]
  ELSE parts[1] \o joinTexts(Tail(parts))

flushKeepsCurrentFile(st) ==
  IF Len(st.currentLines) = 0 THEN st
  ELSE [chunks |-> Append(st.chunks, [file |-> st.currentFile, chunk |-> st.currentLines]),
        currentLines |-> <<>>,
        currentFile |-> st.currentFile]

flushSkipsPreamble(st) ==
  IF Len(st.currentLines) = 0 THEN st
  ELSE IF st.currentFile = "" THEN [st EXCEPT !.currentLines = <<>>]
  ELSE [chunks |-> Append(st.chunks, [file |-> st.currentFile, chunk |-> st.currentLines]),
        currentLines |-> <<>>,
        currentFile |-> ""]

flush(st) ==
  IF Len(st.currentLines) = 0 THEN st
  ELSE [chunks |-> Append(st.chunks, [file |-> st.currentFile, chunk |-> st.currentLines]),
        currentLines |-> <<>>,
        currentFile |-> ""]

RECURSIVE splitLoop(_, _, _)
splitLoop(lines, i, st) ==
  IF i > Len(lines) THEN st
  ELSE LET line == lines[i]
           flushed == flush(st)
           parsed == parseDiffGitHeader(line)
           s1 == IF startsWithDiffGit(line)
                 THEN IF parsed # Undefined
                      THEN [flushed EXCEPT !.currentFile = parsed]
                      ELSE flushed
                 ELSE st
       IN splitLoop(lines, i + 1, [s1 EXCEPT !.currentLines = Append(@, line)])

splitDiffIntoFileChunks(diff) ==
  flush(splitLoop(diff, 1, [chunks |-> <<>>, currentLines |-> <<>>, currentFile |-> ""])).chunks

RECURSIVE addUnique(_, _)
\* insertion-ordered Set: Array.from(new Set(items))
addUnique(items, seen) ==
  IF Len(items) = 0 THEN seen
  ELSE addUnique(Tail(items),
                 IF \E i \in 1..Len(seen) : seen[i] = Head(items) THEN seen
                 ELSE Append(seen, Head(items)))

extractChangedFilesFromDiff(diff) ==
  LET headers == SelectSeq(diff, LAMBDA l : startsWithDiffGit(l)
                                            /\ parseDiffGitHeader(l) # Undefined
                                            /\ parseDiffGitHeader(l) # "/dev/null")
  IN addUnique([i \in 1..Len(headers) |-> parseDiffGitHeader(headers[i])], <<>>)

(* ------------------------------------------------------------------ *)
(* diff_regex gate and scoped diff                                      *)
(* ------------------------------------------------------------------ *)
\* new RegExp(pattern, "m") throws for this pattern
regexInvalid(pattern) == pattern = "("

\* pattern.test(text) on one added line: the patterns of the model are literal words
lineMatches(pattern, text) == pattern = text

\* pattern.test(diff): some added line of the diff carries the word
regexTest(pattern, diff) ==
  \E i \in 1..Len(diff) : diff[i].k = "add" /\ lineMatches(pattern, diff[i].t)

RECURSIVE matchesAnyRegex(_, _)
matchesAnyRegex(diff, regexes) ==
  IF Len(regexes) = 0 THEN FALSE
  ELSE IF regexInvalid(Head(regexes)) THEN FALSE
  ELSE IF regexTest(Head(regexes), diff) THEN TRUE
  ELSE matchesAnyRegex(diff, Tail(regexes))

shouldRunRule(rule, changedFiles, diff, globalIncludeGlobs, globalExcludeGlobs) ==
  LET fileCandidates == getRuleCandidateFiles(rule, changedFiles,
                                              globalIncludeGlobs, globalExcludeGlobs)
  IN IF Len(fileCandidates) = 0 THEN FALSE
     ELSE IF rule.diff_regex.present /\ Len(rule.diff_regex.list) > 0
             /\ ~matchesAnyRegex(diff, rule.diff_regex.list)
          THEN FALSE
          ELSE TRUE

buildScopedDiffNoFallback(rule, fullDiff, changedFiles, globalIncludeGlobs, globalExcludeGlobs) ==
  LET cand == getRuleCandidateFiles(rule, changedFiles, globalIncludeGlobs, globalExcludeGlobs)
      candidateFiles == {cand[i] : i \in 1..Len(cand)}
      chunks == splitDiffIntoFileChunks(fullDiff)
      kept == SelectSeq(chunks, LAMBDA c : c.file # "" /\ c.file \in candidateFiles)
  IN joinTexts([i \in 1..Len(kept) |-> kept[i].chunk])

buildScopedDiff(rule, fullDiff, changedFiles, globalIncludeGlobs, globalExcludeGlobs) ==
  LET cand == getRuleCandidateFiles(rule, changedFiles, globalIncludeGlobs, globalExcludeGlobs)
      candidateFiles == {cand[i] : i \in 1..Len(cand)}
      chunks == splitDiffIntoFileChunks(fullDiff)
      kept == SelectSeq(chunks, LAMBDA c : c.file # "" /\ c.file \in candidateFiles)
      scoped == joinTexts([i \in 1..Len(kept) |-> kept[i].chunk])
  IN IF candidateFiles = {} THEN fullDiff
     ELSE IF isBlankText(scoped) THEN fullDiff ELSE scoped


(* ------------------------------------------------------------------ *)
(* Untrusted backend values and the diagnostic normalizer               *)
(* ------------------------------------------------------------------ *)
\* A JSON value: its typeof, its text (strings), twice its value (numbers,
\* so that 1.5 is the number 3 and an integer is an even n).
Str(x) == [t |-> "string", s |-> x, n |-> 0]
Num(twice) == [t |-> "number", s |-> "", n |-> twice]
Undef == [t |-> "undefined", s |-> "", n |-> 0]

\* A raw diagnostic: obj is FALSE for a value that is not a plain object
\* (null, an array, a string, a number).
Raw(ruleId, file, message, severity, line) ==
  [obj |-> TRUE, rule_id |-> ruleId, file |-> file, message |-> message,
   severity |-> severity, line |-> line, column |-> Undef, end_line |-> Undef,
   end_column |-> Undef, evidence |-> Undef, confidence |-> Undef]
NotAnObject == [Raw(Undef, Undef, Undef, Undef, Undef) EXCEPT !.obj = FALSE]

VALID_SEVERITIES == {"error", "warn", "info"}

isPositiveIntegerZeroAllowed(value) == value.t = "number" /\ value.n % 2 = 0 /\ value.n >= 0

isPositiveInteger(value) == value.t = "number" /\ value.n % 2 = 0 /\ value.n >= 2

\* s.trim()
trim(x) == IF x \in {"", " "} THEN "" ELSE x

\* the directory file paths are resolved against
baseDirOf(resolveRoot) == IF resolveRoot # Undefined /\ resolveRoot # "" THEN resolveRoot ELSE "cwd"

\* fs.existsSync(path.resolve(baseDir, file)); the process runs in the sub-directory src/
existsSync(baseDir, file) ==
  IF baseDir = "cwd" THEN file \in {"a.ts", "b.ts"}
  ELSE file \in {"src/a.ts", "src/b.ts", "docs/readme.md"}

normalizeOne(ruleId, raw, baseDir) ==
  IF ~raw.obj THEN <<>>
  ELSE IF \/ raw.rule_id.t # "string"
          \/ raw.rule_id.s # ruleId
          \/ raw.file.t # "string"
          \/ trim(raw.file.s) = ""
          \/ raw.message.t # "string"
          \/ trim(raw.message.s) = ""
          \/ raw.severity.t # "string"
          \/ raw.severity.s \notin VALID_SEVERITIES
          \/ ~isPositiveInteger(raw.line)
       THEN <<>>
  ELSE IF ~existsSync(baseDir, raw.file.s) THEN <<>>
  ELSE << [rule_id |-> raw.rule_id.s,
           severity |-> raw.severity.s,
           message |-> raw.message.s,
           file |-> raw.file.s,
           line |-> raw.line.n \div 2,
           column |-> IF isPositiveInteger(raw.column) THEN raw.column ELSE Undef,
           end_line |-> IF isPositiveInteger(raw.end_line) THEN raw.end_line ELSE Undef,
           end_column |-> IF isPositiveInteger(raw.end_column) THEN raw.end_column ELSE Undef,
           evidence |-> IF raw.evidence.t = "string" THEN raw.evidence ELSE Undef,
           confidence |-> IF raw.confidence.t = "number" THEN raw.confidence ELSE Undef] >>

RECURSIVE flatMapNormalize(_, _, _)
flatMapNormalize(ruleId, diagnostics, baseDir) ==
  IF Len(diagnostics) = 0 THEN <<>>
  ELSE normalizeOne(ruleId, Head(diagnostics), baseDir)
       \o flatMapNormalize(ruleId, Tail(diagnostics), baseDir)

normalizeDiagnostics(ruleId, diagnostics, resolveRoot) ==
  flatMapNormalize(ruleId, diagnostics, baseDirOf(resolveRoot))

SEVERITY_ORDER(sev) == CASE sev = "error" -> 3 [] sev = "warn" -> 2 [] OTHER -> 1

\* a.localeCompare(b) < 0 on the paths of the model
fileRank(f) ==
  CASE f = ".env" -> 0 [] f = "a.ts" -> 1 [] f = "b.ts" -> 2 [] f = "docs/readme.md" -> 3
    [] f = "src/a.test.ts" -> 4 [] f = "src/a.ts" -> 5 [] f = "src/b.ts" -> 6 [] OTHER -> 7

compareDiagnosticsSeverityAscending(a, b) ==
  IF fileRank(a.file) # fileRank(b.file) THEN fileRank(a.file) - fileRank(b.file)
  ELSE IF a.line # b.line THEN a.line - b.line
  ELSE SEVERITY_ORDER(a.severity) - SEVERITY_ORDER(b.severity)

\* the comparator of sortDiagnostics: negative, zero or positive
compareDiagnostics(a, b) ==
  IF fileRank(a.file) # fileRank(b.file) THEN fileRank(a.file) - fileRank(b.file)
  ELSE IF a.line # b.line THEN a.line - b.line
  ELSE SEVERITY_ORDER(b.severity) - SEVERITY_ORDER(a.severity)

RECURSIVE insertSorted(_, _)
\* stable insertion: d goes after every element that does not compare greater
insertSorted(sortedSeq, d) ==
  IF Len(sortedSeq) = 0 THEN <<d>>
  ELSE IF compareDiagnostics(Head(sortedSeq), d) <= 0
       THEN <<Head(sortedSeq)>> \o insertSorted(Tail(sortedSeq), d)
       ELSE <<d>> \o sortedSeq

RECURSIVE sortLoop(_, _)
sortLoop(input, acc) ==
  IF Len(input) = 0 THEN acc ELSE sortLoop(Tail(input), insertSorted(acc, Head(input)))

\* [...input].sort(comparator): Array.prototype.sort is stable
sortDiagnostics(input) == sortLoop(input, <<>>)

hasBlockingDiagnosticWarnOnly(diagnostics, threshold) ==
  IF threshold = "never" THEN FALSE
  ELSE IF threshold = "warn"
       THEN \E i \in 1..Len(diagnostics) : diagnostics[i].severity = "warn"
       ELSE \E i \in 1..Len(diagnostics) : diagnostics[i].severity = "error"

hasBlockingDiagnostic(diagnostics, threshold) ==
  IF threshold = "never" THEN FALSE
  ELSE IF threshold = "warn"
       THEN \E i \in 1..Len(diagnostics) : diagnostics[i].severity \in {"warn", "error"}
       ELSE \E i \in 1..Len(diagnostics) : diagnostics[i].severity = "error"


(* ------------------------------------------------------------------ *)
(* Secret guard                                                         *)
(* ------------------------------------------------------------------ *)
BUILTIN_SENSITIVE_GLOBS ==
  <<".env", ".env.*", "*.pem", "*.key", "id_rsa", "id_rsa.*",
    "**/secrets/**", "**/credentials/**", "**/*credentials*.json">>

RECURSIVE insertPath(_, _)
insertPath(sortedSeq, f) ==
  IF Len(sortedSeq) = 0 THEN <<f>>
  ELSE IF fileRank(Head(sortedSeq)) <= fileRank(f)
       THEN <<Head(sortedSeq)>> \o insertPath(Tail(sortedSeq), f)
       ELSE <<f>> \o sortedSeq

RECURSIVE sortPaths(_)
\* files.sort((a, b) => a.localeCompare(b))
sortPaths(files) == IF Len(files) = 0 THEN <<>> ELSE insertPath(sortPaths(Tail(files)), Head(files))

\* an ignore file: it exists or not, and its lines
IgnoreFile(exists, lines) == [exists |-> exists, lines |-> lines]

startsWithHash(l) == l \in {"# comment"}

RECURSIVE readIgnorePatterns(_)
\* the lines of the ignore files that exist, trimmed, without blank and # lines
readIgnorePatterns(ignoreFiles) ==
  IF Len(ignoreFiles) = 0 THEN <<>>
  ELSE (IF ~Head(ignoreFiles).exists THEN <<>>
        ELSE SelectSeq([i \in 1..Len(Head(ignoreFiles).lines) |-> trim(Head(ignoreFiles).lines[i])],
                       LAMBDA l : l # "" /\ ~startsWithHash(l)))
       \o readIgnorePatterns(Tail(ignoreFiles))

filterDiffByIgnoreRulesKeepsChunks(diffText, ignorePatterns) ==
  LET patterns == ignorePatterns \o BUILTIN_SENSITIVE_GLOBS
      chunks == splitDiffIntoFileChunks(diffText)
      dropped == SelectSeq(chunks, LAMBDA c : c.file # "" /\ picomatch(patterns, c.file))
  IN [filteredDiff |-> diffText,
      excludedFiles |-> sortPaths(addUnique([i \in 1..Len(dropped) |-> dropped[i].file], <<>>))]

filterDiffByIgnoreRulesNoDedupe(diffText, ignorePatterns) ==
  LET patterns == ignorePatterns \o BUILTIN_SENSITIVE_GLOBS
      chunks == splitDiffIntoFileChunks(diffText)
      dropped == SelectSeq(chunks, LAMBDA c : c.file # "" /\ picomatch(patterns, c.file))
      keptChunks == SelectSeq(chunks, LAMBDA c : c.file = "" \/ ~picomatch(patterns, c.file))
  IN [filteredDiff |-> joinTexts([i \in 1..Len(keptChunks) |-> keptChunks[i].chunk]),
      excludedFiles |-> sortPaths([i \in 1..Len(dropped) |-> dropped[i].file])]

filterDiffByIgnoreRules(diffText, ignorePatterns) ==
  LET patterns == ignorePatterns \o BUILTIN_SENSITIVE_GLOBS
      chunks == splitDiffIntoFileChunks(diffText)
      dropped == SelectSeq(chunks, LAMBDA c : c.file # "" /\ picomatch(patterns, c.file))
      keptChunks == SelectSeq(chunks, LAMBDA c : c.file = "" \/ ~picomatch(patterns, c.file))
  IN [filteredDiff |-> joinTexts([i \in 1..Len(keptChunks) |-> keptChunks[i].chunk]),
      excludedFiles |-> sortPaths(addUnique([i \in 1..Len(dropped) |-> dropped[i].file], <<>>))]

\* line.startsWith("+") && !line.startsWith("+++"): an added line whose own text
\* begins with "++" starts with "+++", as the "+++ b/path" line (kind "newside") does
startsWithPlusNotTriplePlus(line) == line.k = "add" /\ line.t # "++password=hunter2hunter2"

\* the kind of the first SECRET_DETECTORS entry (or the long-token heuristic) that
\* matches the added text, or Undefined
detectorKind(text) ==
  CASE text \in {"password=hunter2hunter2", "++password=hunter2hunter2"} -> "generic_secret_assignment"
    [] text = "AKIA0123456789ABCDEF" -> "aws_access_key_id"
    [] OTHER -> Undefined

\* what added.match(detector.pattern)[0] (or the long token) is for the added text,
\* as the sequence of its characters
detectedValue(text) ==
  CASE text \in {"password=hunter2hunter2", "++password=hunter2hunter2"} ->
         <<"p", "a", "s", "s", "w", "o", "r", "d", "=", "h", "u", "n", "t", "e", "r", "2", "h", "u", "n", "t", "e", "r", "2">>
    [] text = "AKIA0123456789ABCDEF" ->
         <<"A", "K", "I", "A", "0", "1", "2", "3", "4", "5", "6", "7", "8", "9", "A", "B", "C", "D", "E", "F">>
    [] OTHER -> <<>>

redactSampleShortThreshold(sample) ==
  LET nonSpace == {i \in 1..Len(sample) : sample[i] # " "}
      compact == IF nonSpace = {} THEN <<>>
                 ELSE SubSeq(sample, CHOOSE i \in nonSpace : \A j \in nonSpace : i <= j,
                                     CHOOSE i \in nonSpace : \A j \in nonSpace : i >= j)
  IN IF Len(compact) <= 4 THEN <<"*", "*", "*">>
     ELSE SubSeq(compact, 1, 2) \o <<"*", "*", "*">> \o SubSeq(compact, Len(compact) - 1, Len(compact))

\* redactSample: trim, then the mask alone for at most 6 characters, else
\* slice(0, 2), the mask, slice(-2); a string is the sequence of its characters
redactSample(sample) ==
  LET nonSpace == {i \in 1..Len(sample) : sample[i] # " "}
      compact == IF nonSpace = {} THEN <<>>
                 ELSE SubSeq(sample, CHOOSE i \in nonSpace : \A j \in nonSpace : i <= j,
                                     CHOOSE i \in nonSpace : \A j \in nonSpace : i >= j)
  IN IF Len(compact) <= 6 THEN <<"*", "*", "*">>
     ELSE SubSeq(compact, 1, 2) \o <<"*", "*", "*">> \o SubSeq(compact, Len(compact) - 1, Len(compact))

RECURSIVE scanLoop(_, _, _, _, _)
scanLoop(lines, i, currentFile, newLine, allowPatterns) ==
  IF i > Len(lines) THEN <<>>
  ELSE LET line == lines[i] IN
    IF startsWithDiffGit(line)
    THEN scanLoop(lines, i + 1,
                  IF parseDiffGitHeader(line) # Undefined THEN parseDiffGitHeader(line)
                  ELSE currentFile,
                  newLine, allowPatterns)
    ELSE IF line.k = "hunk" THEN scanLoop(lines, i + 1, currentFile, line.n, allowPatterns)
    ELSE IF startsWithPlusNotTriplePlus(line)
    THEN LET allowed == \E j \in 1..Len(allowPatterns) :
                           ~regexInvalid(allowPatterns[j]) /\ lineMatches(allowPatterns[j], line.t)
             found == IF ~allowed /\ detectorKind(line.t) # Undefined
                      THEN << [file |-> currentFile, line |-> newLine, kind |-> detectorKind(line.t),
                               redactedSample |-> redactSample(detectedValue(line.t))] >>
                      ELSE <<>>
         IN found \o scanLoop(lines, i + 1, currentFile, newLine + 1, allowPatterns)
    ELSE IF line.k = "ctx" THEN scanLoop(lines, i + 1, currentFile, newLine + 1, allowPatterns)
    ELSE scanLoop(lines, i + 1, currentFile, newLine, allowPatterns)

scanDiffForSecrets(diffText, allowPatterns) == scanLoop(diffText, 1, "(unknown)", 1, allowPatterns)

\* a glob of security.allow_files on a path: as the globs above, and a glob without
\* a slash is matched against the base name (test "allow_files supports basename
\* glob patterns")
allowFileMatches(g, f) ==
  \/ globMatches(g, f)
  \/ g = "*.md" /\ f = "docs/readme.md"

isAllowedFile(allowFiles, f) == \E i \in 1..Len(allowFiles) : allowFileMatches(allowFiles[i], f)

RECURSIVE scanLoopAllowFiles(_, _, _, _, _, _)
\* the walk of scanDiffForSecrets with the allowFiles skip: an added line is skipped
\* when it matches an allowPatterns regex or when its file matches an allowFiles glob
scanLoopAllowFiles(lines, i, currentFile, newLine, allowPatterns, allowFiles) ==
  IF i > Len(lines) THEN <<>>
  ELSE LET line == lines[i] IN
    IF startsWithDiffGit(line)
    THEN scanLoopAllowFiles(lines, i + 1,
                            IF parseDiffGitHeader(line) # Undefined THEN parseDiffGitHeader(line)
                            ELSE currentFile,
                            newLine, allowPatterns, allowFiles)
    ELSE IF line.k = "hunk"
    THEN scanLoopAllowFiles(lines, i + 1, currentFile, line.n, allowPatterns, allowFiles)
    ELSE IF startsWithPlusNotTriplePlus(line)
    THEN LET allowed == \/ \E j \in 1..Len(allowPatterns) :
                              ~regexInvalid(allowPatterns[j]) /\ lineMatches(allowPatterns[j], line.t)
                        \/ isAllowedFile(allowFiles, currentFile)
             found == IF ~allowed /\ detectorKind(line.t) # Undefined
                      THEN << [file |-> currentFile, line |-> newLine, kind |-> detectorKind(line.t),
                               redactedSample |-> redactSample(detectedValue(line.t))] >>
                      ELSE <<>>
         IN found \o scanLoopAllowFiles(lines, i + 1, currentFile, newLine + 1, allowPatterns, allowFiles)
    ELSE IF line.k = "ctx"
    THEN scanLoopAllowFiles(lines, i + 1, currentFile, newLine + 1, allowPatterns, allowFiles)
    ELSE scanLoopAllowFiles(lines, i + 1, currentFile, newLine, allowPatterns, allowFiles)

scanDiffForSecretsIgnoringAllowFiles(diffText, allowPatterns, allowFiles) ==
  scanDiffForSecrets(diffText, allowPatterns)

\* scanDiffForSecrets(diff, allowPatterns, allowFiles), as runSemlint calls it
scanDiffForSecretsAllowFiles(diffText, allowPatterns, allowFiles) ==
  scanLoopAllowFiles(diffText, 1, "(unknown)", 1, allowPatterns, allowFiles)


(* ------------------------------------------------------------------ *)
(* Prompts and backend invocations                                      *)
(* ------------------------------------------------------------------ *)
\* A prompt: the ids of the rules it enumerates, the diff text it embeds and
\* whether the strict-JSON retry instruction is appended.
buildRulePrompt(rule, diffText) ==
  [mode |-> "rule", rules |-> <<rule.id>>, diff |-> diffText, strict |-> FALSE]

buildBatchPrompt(ruleList, diffText) ==
  [mode |-> "batch", rules |-> [i \in 1..Len(ruleList) |-> ruleList[i].id],
   diff |-> diffText, strict |-> FALSE]

\* `${input.prompt}\n\n${STRICT_JSON_RETRY_INSTRUCTION}`
retryPromptOf(prompt) == [prompt EXCEPT !.strict = TRUE]

\* the ways one machine-mode attempt fails
FailKinds == {"ENOENT", "nonzero", "timeout", "badjson"}

isEnoentError(err) == err = "ENOENT"

Spawned(mode, prompt) == [mode |-> mode, prompt |-> prompt]

\* a backend invocation (runPrompt) whose primary attempt has just been spawned
\* elapsed: the time since the running attempt was spawned; used: the time the earlier
\* attempts of the invocation took
newCall(prompt) ==
  [prompt |-> prompt, pc |-> "attempt1", firstError |-> "", secondError |-> "",
   spawned |-> <<Spawned("machine", prompt)>>, out |-> <<>>,
   backendError |-> FALSE, normalized |-> <<>>, elapsed |-> 0, used |-> 0]

elapsedAtSpawnShared(c) == c.elapsed

\* executeBackendCommand sets its own timer when it spawns the process
elapsedAtSpawn(c) == 0

canUseInteractiveRecovery(e) == e.ioTTY /\ e.errTTY


(* ------------------------------------------------------------------ *)
(* State                                                                *)
(* ------------------------------------------------------------------ *)
VARIABLES
  env,            \* options, effective configuration and terminal of the run
  rules,          \* the loaded rules, sorted by id
  rawDiff,        \* the diff text git produces
  pc,             \* the position of runSemlint
  diff,           \* the ignore-filtered diff
  excludedFiles,  \* the files filterDiffByIgnoreRules left out
  changedFiles,   \* extractChangedFilesFromDiff(diff)
  asked,          \* the confirmation question was put to the terminal
  answered,       \* answer.trim().toLowerCase() of the answer read, Undefined when none was
  runnableRules,  \* the rules main selected for dispatch
  calls,          \* the backend invocations (runPrompt) of the dispatch, in start order
  settled,        \* the indices of the settled invocations, in settle order
  result,         \* the DispatchResult
  sorted,         \* the sorted diagnostics
  reported,       \* a diagnostics report was written to stdout
  exitCode,       \* the value runSemlint returned, -1 while it runs
  fin,            \* the arguments of the function under check
  fout            \* what the function returned

runVars == <<env, rules, rawDiff, pc, diff, excludedFiles, changedFiles, asked, answered,
             runnableRules, calls, settled, result, sorted, reported, exitCode>>
funVars == <<fin, fout>>
vars == <<env, rules, rawDiff, pc, diff, excludedFiles, changedFiles, asked, answered,
          runnableRules, calls, settled, result, sorted, reported, exitCode, fin, fout>>

NoResult == [diagnostics |-> <<>>, backendErrors |-> 0]

(* ------------------------------------------------------------------ *)
(* Inputs of the model                                                  *)
(* ------------------------------------------------------------------ *)
Rule(id, inc, exc, rx) == [id |-> id, include_globs |-> inc, exclude_globs |-> exc, diff_regex |-> rx]

RuleA == Rule("A", Omitted, Omitted, Omitted)
RuleB == Rule("B", Given(<<"docs/**/*.md">>), Omitted, Given(<<"TODO">>))
RuleC == Rule("C", Given(<<>>), Given(<<>>), Given(<<"(", "TODO">>))
RuleD == Rule("D", Given(<<"src/**/*.ts">>), Given(<<"**/*.test.ts">>), Given(<<"zzz", "TODO">>))
RuleE == Rule("E", Omitted, Omitted, Given(<<"zzz">>))

RuleSets == {<<>>, <<RuleA>>, <<RuleA, RuleB>>, <<RuleC, RuleD>>, <<RuleB, RuleE>>}

DiffTwoFiles ==
  <<Hdr("src/a.ts"), Hunk(3), Add("TODO"), Ctx, Hdr("docs/readme.md"), Hunk(5), Del, Add("plain")>>

Diffs ==
  { DiffTwoFiles,
    <<Hdr("src/a.ts"), Hunk(3), Ctx, Add("password=hunter2hunter2")>>,
    <<Hdr(".env"), Hunk(1), Add("AKIA0123456789ABCDEF"), Hdr("docs/readme.md"), Hunk(1), Add("TODO")>>,
    EmptyText }

GlobalGlobs ==
  { [inc |-> <<>>, exc |-> <<>>],
    [inc |-> <<"src/**/*.ts">>, exc |-> <<>>],
    [inc |-> <<"src/**/*.ts">>, exc |-> <<"**/*.test.ts", "**/*.spec.ts">>] }

\* stdin/stdout and stderr attached to a terminal
Terminals == { [io |-> FALSE, err |-> FALSE], [io |-> TRUE, err |-> TRUE], [io |-> TRUE, err |-> FALSE] }

FailOns == {"error", "warn", "never"}

\* security.allow_patterns
AllowLists == {<<>>, <<"(", "password=hunter2hunter2">>}

\* security.allow_files
AllowFileLists == {<<>>, <<"src/**/*.ts">>, <<"*.md">>, <<"src/**/*.ts", "docs/**/*.md">>}

\* the security allow lists of the runs
Allows ==
  {[patterns |-> ap, files |-> <<>>] : ap \in AllowLists}
  \cup {[patterns |-> <<>>, files |-> <<"src/**/*.ts">>]}

RawA == Raw(Str("A"), Str("src/a.ts"), Str("from A"), Str("warn"), Num(6))
RawB == Raw(Str("B"), Str("src/a.ts"), Str("from B"), Str("warn"), Num(6))
RawBerr == Raw(Str("B"), Str("docs/readme.md"), Str("broken"), Str("error"), Num(2))
RawDinfo == Raw(Str("D"), Str("src/a.ts"), Str("note"), Str("info"), Num(2))
RawForeign == Raw(Str("Z"), Str("src/a.ts"), Str("other rule"), Str("error"), Num(2))
RawGone == Raw(Str("A"), Str("src/gone.ts"), Str("no such file"), Str("error"), Num(2))

\* what a backend process may print as {"diagnostics": [...]}
BackendOutputs ==
  { <<>>,
    <<RawB, NotAnObject, RawA>>,
    <<RawForeign, RawBerr, RawGone, RawDinfo>> }


(* ------------------------------------------------------------------ *)
(* runSemlint                                                           *)
(* ------------------------------------------------------------------ *)
InitRun ==
  /\ \E sg \in BOOLEAN, aa \in BOOLEAN, term \in Terminals, bm \in BOOLEAN,
        fo \in FailOns, gg \in GlobalGlobs, al \in Allows :
       env = [secretGuard |-> sg, autoAccept |-> aa, ioTTY |-> term.io, errTTY |-> term.err,
              batchMode |-> bm, failOn |-> fo,
              rulesIncludeGlobs |-> gg.inc, rulesExcludeGlobs |-> gg.exc,
              allowPatterns |-> al.patterns, allowFiles |-> al.files,
              ignorePatterns |-> <<>>, repoRoot |-> "/repo", timeoutMs |-> 0]
  /\ rules \in RuleSets
  /\ rawDiff \in Diffs
  /\ pc = "start"
  /\ diff = <<>>
  /\ excludedFiles = <<>>
  /\ changedFiles = <<>>
  /\ asked = FALSE
  /\ answered = Undefined
  /\ runnableRules = <<>>
  /\ calls = <<>>
  /\ settled = <<>>
  /\ result = NoResult
  /\ sorted = <<>>
  /\ reported = FALSE
  /\ exitCode = -1
  /\ fin = <<>>
  /\ fout = <<>>

\* the catch block of runSemlint: any throw ends the run with 2
exitWith(code) == pc' = "done" /\ exitCode' = code

\* lines 85-109: configuration, rules and the diff are loaded and the diff filtered
LoadAndFilter ==
  /\ pc = "start"
  /\ LET f == filterDiffByIgnoreRules(rawDiff, env.ignorePatterns)
     IN /\ diff' = f.filteredDiff
        /\ excludedFiles' = f.excludedFiles
  /\ pc' = "guard"
  /\ UNCHANGED <<env, rules, rawDiff, changedFiles, asked, answered, runnableRules, calls, settled,
                 result, sorted, reported, exitCode, fin, fout>>

\* loadEffectiveConfig, loadRules or git throws
LoadThrows ==
  /\ pc = "start"
  /\ exitWith(2)
  /\ UNCHANGED <<env, rules, rawDiff, diff, excludedFiles, changedFiles, asked, answered, runnableRules,
                 calls, settled, result, sorted, reported, fin, fout>>

secretGuardFailsOpen(e, diffText) == FALSE

\* lines 110-114: the guard is enabled and the scan has findings
secretGuardBlocks(e, diffText) ==
  e.secretGuard /\ Len(scanDiffForSecretsAllowFiles(diffText, e.allowPatterns, e.allowFiles)) > 0

\* lines 110-136: the secret guard, then the changed files
SecretGuard ==
  /\ pc = "guard"
  /\ IF secretGuardBlocks(env, diff)
     THEN /\ exitWith(2)
          /\ UNCHANGED changedFiles
     ELSE /\ changedFiles' = extractChangedFilesFromDiff(diff)
          /\ pc' = "confirm"
          /\ UNCHANGED exitCode
  /\ UNCHANGED <<env, rules, rawDiff, diff, excludedFiles, asked, answered, runnableRules, calls, settled,
                 result, sorted, reported, fin, fout>>

Answers == {"y", "yes", " Y ", "n", ""}

\* answer.trim().toLowerCase()
normalizeAnswer(answer) == IF answer = " Y " THEN "y" ELSE answer

\* the rules.filter of lines 153-162: shouldRunRule is called without the global lists,
\* whose parameters default to []
selectRunnable(ruleList, files, diffText) ==
  SelectSeq(ruleList, LAMBDA r : shouldRunRule(r, files, diffText, <<>>, <<>>))

confirmedByAnythingButNo(autoAccept, ioTTY, normalized) ==
  autoAccept \/ (ioTTY /\ normalized # "n")

\* what confirmDiffPreview returns: true with --yes, false without a terminal, else
\* whether the normalized answer is y or yes
confirmedBy(autoAccept, ioTTY, normalized) ==
  autoAccept \/ (ioTTY /\ normalized \in {"y", "yes"})

\* lines 137-183: confirmDiffPreview, then the runnable rules
confirmDiffPreview ==
  /\ pc = "confirm"
  /\ \E answer \in Answers :
       LET willAsk == ~env.autoAccept /\ env.ioTTY
           confirmed == confirmedBy(env.autoAccept, env.ioTTY, normalizeAnswer(answer))
       IN /\ asked' = willAsk
          /\ answered' = IF willAsk THEN normalizeAnswer(answer) ELSE Undefined
          /\ IF ~confirmed
             THEN /\ exitWith(2)
                  /\ UNCHANGED runnableRules
             ELSE /\ runnableRules' = selectRunnable(rules, changedFiles, diff)
                  /\ pc' = IF Len(runnableRules') > 0 THEN "dispatch" ELSE "report"
                  /\ UNCHANGED exitCode
  /\ UNCHANGED <<env, rules, rawDiff, diff, excludedFiles, changedFiles, calls, settled,
                 result, sorted, reported, fin, fout>>


(* ------------------------------------------------------------------ *)
(* Dispatch                                                             *)
(* ------------------------------------------------------------------ *)
RECURSIVE flatten(_)
flatten(lists) == IF Len(lists) = 0 THEN <<>> ELSE Head(lists) \o flatten(Tail(lists))

\* runParallelDispatch up to its await: every rule's primary attempt is spawned
runParallelDispatchStart ==
  /\ pc = "dispatch"
  /\ ~env.batchMode
  /\ calls' = [i \in 1..Len(runnableRules) |->
                 newCall(buildRulePrompt(runnableRules[i],
                           buildScopedDiff(runnableRules[i], diff, changedFiles,
                                           env.rulesIncludeGlobs, env.rulesExcludeGlobs)))]
  /\ pc' = "await"
  /\ UNCHANGED <<env, rules, rawDiff, diff, excludedFiles, changedFiles, asked, answered, runnableRules,
                 settled, result, sorted, reported, exitCode, fin, fout>>

batchCallsPerRule(ruleList, prompt) == [i \in 1..Len(ruleList) |-> newCall(prompt)]

\* the backend invocations runBatchDispatch makes
batchCalls(ruleList, prompt) == <<newCall(prompt)>>

\* runBatchDispatch up to its await
runBatchDispatchStart ==
  /\ pc = "dispatch"
  /\ env.batchMode
  /\ LET scopedDiffs == [i \in 1..Len(runnableRules) |->
                           buildScopedDiff(runnableRules[i], diff, changedFiles,
                                           env.rulesIncludeGlobs, env.rulesExcludeGlobs)]
         parts == SelectSeq(scopedDiffs, LAMBDA d : ~isBlankText(d))
         combinedDiff == joinTexts(parts)
         batchPrompt == buildBatchPrompt(runnableRules,
                                         IF combinedDiff = EmptyText THEN diff ELSE combinedDiff)
     IN calls' = batchCalls(runnableRules, batchPrompt)
  /\ pc' = "await"
  /\ UNCHANGED <<env, rules, rawDiff, diff, excludedFiles, changedFiles, asked, answered, runnableRules,
                 settled, result, sorted, reported, exitCode, fin, fout>>

\* runPrompt resolves with {diagnostics: raw}; in parallel mode the rule's task goes on
\* to normalize them (lines 180-182)
resolved(c, i, raw) ==
  [c EXCEPT !.pc = "ok", !.out = raw, !.firstError = "", !.secondError = "",
            !.elapsed = 0, !.used = 0,
            !.normalized = IF env.batchMode THEN <<>>
                           ELSE normalizeDiagnostics(runnableRules[i].id, raw, env.repoRoot)]

rejectedUncounted(c) ==
  [c EXCEPT !.pc = "error", !.firstError = "", !.secondError = "", !.elapsed = 0, !.used = 0]

\* runPrompt rejects; in parallel mode the rule's task catches it (lines 183-188)
rejected(c) ==
  [c EXCEPT !.pc = "error", !.firstError = "", !.secondError = "", !.backendError = TRUE,
            !.elapsed = 0, !.used = 0]

retryAfterFirstFailureSamePrompt(c, kind) ==
  [c EXCEPT !.pc = "attempt2", !.firstError = kind,
            !.spawned = Append(@, Spawned("machine", c.prompt)),
            !.used = c.used + c.elapsed, !.elapsed = elapsedAtSpawn(c)]

\* runWithRetry, lines 615-631: the primary attempt failed
retryAfterFirstFailure(c, kind) ==
  [c EXCEPT !.pc = "attempt2", !.firstError = kind,
            !.spawned = Append(@, Spawned("machine", retryPromptOf(c.prompt))),
            !.used = c.used + c.elapsed, !.elapsed = elapsedAtSpawn(c)]

\* runWithRetry, lines 634-661: the strict retry failed
afterSecondFailure(c, kind) ==
  IF ~isEnoentError(c.firstError) /\ ~isEnoentError(kind) /\ canUseInteractiveRecovery(env)
  THEN [c EXCEPT !.pc = "interactive", !.secondError = kind,
                 !.spawned = Append(@, Spawned("interactive", c.prompt)),
                 !.used = c.used + c.elapsed, !.elapsed = 0]
  ELSE rejected(c)

\* a machine-mode attempt exits 0 and prints JSON of shape {diagnostics: raw}
AttemptSucceeds(i) ==
  /\ pc = "await"
  /\ i \in 1..Len(calls)
  /\ calls[i].pc \in {"attempt1", "attempt2", "attempt3"}
  /\ \E raw \in BackendOutputs : calls' = [calls EXCEPT ![i] = resolved(@, i, raw)]
  /\ settled' = Append(settled, i)
  /\ UNCHANGED <<env, rules, rawDiff, pc, diff, excludedFiles, changedFiles, asked, answered,
                 runnableRules, result, sorted, reported, exitCode, fin, fout>>

\* a machine-mode attempt fails: launch error, non-zero exit, output that
\* parseBackendResult rejects, or the kill by its timer once timeoutMs have elapsed
AttemptFails(i) ==
  /\ pc = "await"
  /\ i \in 1..Len(calls)
  /\ calls[i].pc \in {"attempt1", "attempt2", "attempt3"}
  /\ \E kind \in FailKinds :
       /\ kind = "timeout" => calls[i].elapsed = env.timeoutMs
       /\ calls' = [calls EXCEPT ![i] =
                   IF @.pc = "attempt1" THEN retryAfterFirstFailure(@, kind)
                   ELSE IF @.pc = "attempt2" THEN afterSecondFailure(@, kind)
                   ELSE rejected(@)]
  /\ settled' = IF calls'[i].pc = "error" THEN Append(settled, i) ELSE settled
  /\ UNCHANGED <<env, rules, rawDiff, pc, diff, excludedFiles, changedFiles, asked, answered,
                 runnableRules, result, sorted, reported, exitCode, fin, fout>>

\* the interactive passthrough process closes (lines 649-655)
InteractiveCloses(i) ==
  /\ pc = "await"
  /\ i \in 1..Len(calls)
  /\ calls[i].pc = "interactive"
  /\ \E ok \in BOOLEAN :
       calls' = [calls EXCEPT ![i] =
                   IF ok THEN [@ EXCEPT !.pc = "attempt3",
                                        !.spawned = Append(@, Spawned("machine", calls[i].prompt)),
                                        !.elapsed = elapsedAtSpawn(calls[i])]
                   ELSE rejected(@)]
  /\ settled' = IF calls'[i].pc = "error" THEN Append(settled, i) ELSE settled
  /\ UNCHANGED <<env, rules, rawDiff, pc, diff, excludedFiles, changedFiles, asked, answered,
                 runnableRules, result, sorted, reported, exitCode, fin, fout>>

allSettledOrOneRejected ==
  \/ \A i \in 1..Len(calls) : calls[i].pc \in {"ok", "error"}
  \/ \E i \in 1..Len(calls) : calls[i].pc = "error"

\* Promise.all over tasks that never reject: every task has settled
allSettled == \A i \in 1..Len(calls) : calls[i].pc \in {"ok", "error"}

runResultsInSettleOrder(n, settledSeq) == settledSeq

\* Promise.all resolves with the results in the order of the rules
runResultsOrder(n, settledSeq) == [i \in 1..n |-> i]

\* runParallelDispatch, lines 192-195
runParallelDispatchReturn ==
  /\ pc = "await"
  /\ ~env.batchMode
  /\ allSettled
  /\ LET order == runResultsOrder(Len(calls), settled)
         runResults == [k \in 1..Len(order) |-> calls[order[k]]]
     IN result' = [diagnostics |-> flatten([k \in 1..Len(runResults) |-> runResults[k].normalized]),
                   backendErrors |-> Cardinality({k \in 1..Len(runResults) : runResults[k].backendError})]
  /\ pc' = "report"
  /\ UNCHANGED <<env, rules, rawDiff, diff, excludedFiles, changedFiles, asked, answered, runnableRules,
                 calls, settled, sorted, reported, exitCode, fin, fout>>

RECURSIVE validPrefix(_)
validPrefix(raw) ==
  IF Len(raw) = 0 \/ ~Head(raw).obj \/ Head(raw).rule_id.t # "string" THEN <<>>
  ELSE <<Head(raw)>> \o validPrefix(Tail(raw))

groupedByRuleUntilInvalid(raw, ruleId) ==
  SelectSeq(validPrefix(raw), LAMBDA d : d.rule_id.s = ruleId)

\* groupedByRule.get(ruleId) ?? []
groupedByRule(raw, ruleId) ==
  SelectSeq(raw, LAMBDA d : d.obj /\ d.rule_id.t = "string" /\ d.rule_id.s = ruleId)

\* runBatchDispatch, lines 118-153
runBatchDispatchReturn ==
  /\ pc = "await"
  /\ env.batchMode
  /\ allSettled
  /\ result' =
       IF calls[1].pc = "ok"
       THEN [diagnostics |->
               flatten([k \in 1..Len(runnableRules) |->
                          normalizeDiagnostics(runnableRules[k].id,
                                               groupedByRule(calls[1].out, runnableRules[k].id),
                                               env.repoRoot)]),
             backendErrors |-> 0]
       ELSE [diagnostics |-> <<>>, backendErrors |-> 1]
  /\ pc' = "report"
  /\ UNCHANGED <<env, rules, rawDiff, diff, excludedFiles, changedFiles, asked, answered, runnableRules,
                 calls, settled, sorted, reported, exitCode, fin, fout>>

exitCodeOfBlockingFirst(backendErrors, diagnostics, failOn) ==
  IF hasBlockingDiagnostic(diagnostics, failOn) THEN 1
  ELSE IF backendErrors > 0 THEN 2 ELSE 0

\* runSemlint, lines 232-238
exitCodeOf(backendErrors, diagnostics, failOn) ==
  IF backendErrors > 0 THEN 2
  ELSE IF hasBlockingDiagnostic(diagnostics, failOn) THEN 1 ELSE 0

\* runSemlint, lines 210-238: sort, report, exit code
Report ==
  /\ pc = "report"
  /\ sorted' = sortDiagnostics(result.diagnostics)
  /\ reported' = TRUE
  /\ exitCode' = exitCodeOf(result.backendErrors, sorted', env.failOn)
  /\ pc' = "done"
  /\ UNCHANGED <<env, rules, rawDiff, diff, excludedFiles, changedFiles, asked, answered, runnableRules,
                 calls, settled, result, fin, fout>>

Next ==
  \/ LoadAndFilter
  \/ LoadThrows
  \/ SecretGuard
  \/ confirmDiffPreview
  \/ runParallelDispatchStart
  \/ runBatchDispatchStart
  \/ \E i \in 1..Len(calls) : AttemptSucceeds(i)
  \/ \E i \in 1..Len(calls) : AttemptFails(i)
  \/ \E i \in 1..Len(calls) : InteractiveCloses(i)
  \/ runParallelDispatchReturn
  \/ runBatchDispatchReturn
  \/ Report

Spec == InitRun /\ [][Next]_vars

(* ------------------------------------------------------------------ *)
(* The dispatch of up to MaxRules runnable rules                        *)
(* ------------------------------------------------------------------ *)
DispatchRules == <<RuleA, RuleB, RuleD>>

\* the run has loaded, passed the secret guard, been confirmed and selected its rules
InitDispatch ==
  /\ \E term \in Terminals, bm \in BOOLEAN :
       env = [secretGuard |-> TRUE, autoAccept |-> TRUE, ioTTY |-> term.io, errTTY |-> term.err,
              batchMode |-> bm, failOn |-> "warn",
              rulesIncludeGlobs |-> <<>>, rulesExcludeGlobs |-> <<>>,
              allowPatterns |-> <<>>, ignorePatterns |-> <<>>, repoRoot |-> "/repo",
              timeoutMs |-> 0]
  /\ \E n \in 1..MaxRules : rules = SubSeq(DispatchRules, 1, n)
  /\ rawDiff = DiffTwoFiles
  /\ diff = filterDiffByIgnoreRules(rawDiff, env.ignorePatterns).filteredDiff
  /\ excludedFiles = filterDiffByIgnoreRules(rawDiff, env.ignorePatterns).excludedFiles
  /\ changedFiles = extractChangedFilesFromDiff(diff)
  /\ asked = FALSE
  /\ answered = Undefined
  /\ runnableRules = selectRunnable(rules, changedFiles, diff)
  /\ pc = "dispatch"
  /\ calls = <<>>
  /\ settled = <<>>
  /\ result = NoResult
  /\ sorted = <<>>
  /\ reported = FALSE
  /\ exitCode = -1
  /\ fin = <<>>
  /\ fout = <<>>

NextDispatch ==
  \/ runParallelDispatchStart
  \/ runBatchDispatchStart
  \/ \E i \in 1..Len(calls) : AttemptSucceeds(i)
  \/ \E i \in 1..Len(calls) : AttemptFails(i)
  \/ \E i \in 1..Len(calls) : InteractiveCloses(i)
  \/ runParallelDispatchReturn
  \/ runBatchDispatchReturn
  \/ Report

SpecDispatch == InitDispatch /\ [][NextDispatch]_vars

(* ------------------------------------------------------------------ *)
(* The dispatch with the time of the attempts measured                  *)
(* ------------------------------------------------------------------ *)
machineRunningFirstAttempt(c) == c.pc = "attempt1"

machineRunning(c) == c.pc \in {"attempt1", "attempt2", "attempt3"}

\* one unit of time passes for every running machine-mode attempt; a timer that is
\* due fires before more time passes
Tick ==
  /\ pc = "await"
  /\ \E i \in 1..Len(calls) : machineRunning(calls[i])
  /\ \A i \in 1..Len(calls) : machineRunning(calls[i]) => calls[i].elapsed < env.timeoutMs
  /\ calls' = [i \in 1..Len(calls) |->
                 IF machineRunning(calls[i]) THEN [calls[i] EXCEPT !.elapsed = @ + 1]
                 ELSE calls[i]]
  /\ UNCHANGED <<env, rules, rawDiff, pc, diff, excludedFiles, changedFiles, asked, answered,
                 runnableRules, settled, result, sorted, reported, exitCode, fin, fout>>

InitTimed ==
  /\ \E term \in Terminals, bm \in BOOLEAN, t \in 1..MaxTimeout :
       env = [secretGuard |-> TRUE, autoAccept |-> TRUE, ioTTY |-> term.io, errTTY |-> term.err,
              batchMode |-> bm, failOn |-> "warn",
              rulesIncludeGlobs |-> <<>>, rulesExcludeGlobs |-> <<>>,
              allowPatterns |-> <<>>, ignorePatterns |-> <<>>, repoRoot |-> "/repo",
              timeoutMs |-> t]
  /\ rules = SubSeq(DispatchRules, 1, 2)
  /\ rawDiff = DiffTwoFiles
  /\ diff = filterDiffByIgnoreRules(rawDiff, env.ignorePatterns).filteredDiff
  /\ excludedFiles = filterDiffByIgnoreRules(rawDiff, env.ignorePatterns).excludedFiles
  /\ changedFiles = extractChangedFilesFromDiff(diff)
  /\ asked = FALSE
  /\ answered = Undefined
  /\ runnableRules = selectRunnable(rules, changedFiles, diff)
  /\ pc = "dispatch"
  /\ calls = <<>>
  /\ settled = <<>>
  /\ result = NoResult
  /\ sorted = <<>>
  /\ reported = FALSE
  /\ exitCode = -1
  /\ fin = <<>>
  /\ fout = <<>>

NextTimed ==
  \/ runParallelDispatchStart
  \/ runBatchDispatchStart
  \/ Tick
  \/ \E i \in 1..Len(calls) : AttemptSucceeds(i)
  \/ \E i \in 1..Len(calls) : AttemptFails(i)
  \/ \E i \in 1..Len(calls) : InteractiveCloses(i)
  \/ runParallelDispatchReturn
  \/ runBatchDispatchReturn
  \/ Report

SpecTimed == InitTimed /\ [][NextTimed]_vars

\* the kill timer of the attempt that invocation i is running is due and fires
\* (executeBackendCommand, lines 458-461): the attempt ends
timerFires(i) == AttemptFails(i) /\ calls[i].elapsed = env.timeoutMs

\* SpecTimed with what the scheduling guarantees: time passes, a due timer fires, and
\* the continuations of the dispatchers and of runSemlint run. Nothing makes the
\* interactive passthrough process exit.
SpecTimedLive ==
  /\ SpecTimed
  /\ WF_vars(Tick)
  /\ \A i \in 1..MaxRules : WF_vars(timerFires(i))
  /\ WF_vars(runParallelDispatchStart \/ runBatchDispatchStart)
  /\ WF_vars(runParallelDispatchReturn \/ runBatchDispatchReturn)
  /\ WF_vars(Report)



(* ------------------------------------------------------------------ *)
(* getRuleCandidateFiles on bounded inputs                              *)
(* ------------------------------------------------------------------ *)
PathSet == {Paths[i] : i \in 1..Len(Paths)}

\* the lists of at most n distinct paths
RECURSIVE FileSeqs(_)
FileSeqs(n) ==
  IF n = 0 THEN {<<>>}
  ELSE LET shorter == FileSeqs(n - 1)
           longest == {q \in shorter : Len(q) = n - 1}
       IN shorter \cup
          UNION { {Append(q, f) : f \in PathSet \ {q[i] : i \in 1..Len(q)}} : q \in longest }

GlobLists == {<<>>} \cup {<<g>> : g \in Globs} \cup {<<"**/*.test.ts", "docs/**/*.md">>}
OptionalGlobLists == {Omitted} \cup {Given(l) : l \in GlobLists}

InitIdle ==
  /\ env = [batchMode |-> FALSE, repoRoot |-> "/repo"]
  /\ rules = <<>>
  /\ rawDiff = EmptyText
  /\ pc = "idle"
  /\ diff = <<>>
  /\ excludedFiles = <<>>
  /\ changedFiles = <<>>
  /\ asked = FALSE
  /\ answered = Undefined
  /\ runnableRules = <<>>
  /\ calls = <<>>
  /\ settled = <<>>
  /\ result = NoResult
  /\ sorted = <<>>
  /\ reported = FALSE
  /\ exitCode = -1

InitCandidates ==
  /\ InitIdle
  /\ \E inc \in OptionalGlobLists, exc \in OptionalGlobLists, files \in FileSeqs(MaxFiles),
        gi \in GlobLists, ge \in GlobLists :
       fin = [rule |-> Rule("A", inc, exc, Omitted), changedFiles |-> files,
              globalIncludeGlobs |-> gi, globalExcludeGlobs |-> ge]
  /\ fout = <<>>

CallGetRuleCandidateFiles ==
  /\ fout = <<>>
  /\ fout' = <<getRuleCandidateFiles(fin.rule, fin.changedFiles,
                                     fin.globalIncludeGlobs, fin.globalExcludeGlobs)>>
  /\ UNCHANGED <<fin, env, rules, rawDiff, pc, diff, excludedFiles, changedFiles, asked, answered,
                 runnableRules, calls, settled, result, sorted, reported, exitCode>>

SpecCandidates == InitCandidates /\ [][CallGetRuleCandidateFiles]_vars

(* ------------------------------------------------------------------ *)
(* normalizeDiagnostics on bounded inputs                               *)
(* ------------------------------------------------------------------ *)
RawOk == Raw(Str("A"), Str("src/a.ts"), Str("m"), Str("warn"), Num(6))

RawPool ==
  { RawOk,
    [RawOk EXCEPT !.severity = Str("error"), !.line = Num(2), !.column = Num(4),
                  !.end_line = Num(2), !.end_column = Num(8), !.evidence = Str("x"),
                  !.confidence = Num(1)],
    [RawOk EXCEPT !.severity = Str("info"), !.column = Str("4"), !.end_line = Num(0),
                  !.end_column = Num(3), !.evidence = Num(2), !.confidence = Str("high")],
    NotAnObject,
    [RawOk EXCEPT !.rule_id = Str("B")],
    [RawOk EXCEPT !.rule_id = Num(2)],
    [RawOk EXCEPT !.file = Str("")],
    [RawOk EXCEPT !.file = Num(2)],
    [RawOk EXCEPT !.file = Str("src/gone.ts")],
    [RawOk EXCEPT !.file = Str("b.ts")],
    [RawOk EXCEPT !.message = Str("")],
    [RawOk EXCEPT !.message = Str(" ")],
    [RawOk EXCEPT !.message = Undef],
    [RawOk EXCEPT !.severity = Str("fatal")],
    [RawOk EXCEPT !.severity = Num(6)],
    [RawOk EXCEPT !.line = Num(0)],
    [RawOk EXCEPT !.line = Num(3)],
    [RawOk EXCEPT !.line = Num(-2)],
    [RawOk EXCEPT !.line = Str("3")] }

RECURSIVE RawLists(_)
RawLists(n) ==
  IF n = 0 THEN {<<>>}
  ELSE RawLists(n - 1) \cup {Append(q, r) : q \in {x \in RawLists(n - 1) : Len(x) = n - 1},
                                            r \in RawPool}

InitNormalize ==
  /\ InitIdle
  /\ \E id \in {"A", "B"}, raw \in RawLists(MaxRaw), root \in {Undefined, "", "/repo"} :
       fin = [ruleId |-> id, diagnostics |-> raw, resolveRoot |-> root]
  /\ fout = <<>>

CallNormalizeDiagnostics ==
  /\ fout = <<>>
  /\ fout' = <<normalizeDiagnostics(fin.ruleId, fin.diagnostics, fin.resolveRoot)>>
  /\ UNCHANGED <<fin, env, rules, rawDiff, pc, diff, excludedFiles, changedFiles, asked, answered,
                 runnableRules, calls, settled, result, sorted, reported, exitCode>>

SpecNormalize == InitNormalize /\ [][CallNormalizeDiagnostics]_vars


(* ------------------------------------------------------------------ *)
(* sortDiagnostics on bounded inputs                                    *)
(* ------------------------------------------------------------------ *)
Diag(file, line, severity, message) ==
  [rule_id |-> "A", severity |-> severity, message |-> message, file |-> file, line |-> line,
   column |-> Undef, end_line |-> Undef, end_column |-> Undef, evidence |-> Undef,
   confidence |-> Undef]

DiagPool ==
  {Diag(f, l, sv, "m") : f \in {"src/a.ts", "docs/readme.md"}, l \in {1, 2},
                         sv \in {"error", "warn", "info"}}
  \cup {Diag("src/a.ts", l, sv, "n") : l \in {1, 2}, sv \in {"error", "warn"}}

RECURSIVE DiagLists(_)
DiagLists(n) ==
  IF n = 0 THEN {<<>>}
  ELSE DiagLists(n - 1) \cup {Append(q, d) : q \in {x \in DiagLists(n - 1) : Len(x) = n - 1},
                                             d \in DiagPool}

InitSort ==
  /\ InitIdle
  /\ \E input \in DiagLists(MaxDiag) : fin = [input |-> input, before |-> input]
  /\ fout = <<>>

\* sortDiagnostics sorts a copy ([...input]); the caller's array is not written
CallSortDiagnostics ==
  /\ fout = <<>>
  /\ fout' = <<sortDiagnostics(fin.input)>>
  /\ fin' = [fin EXCEPT !.input = fin.input]
  /\ UNCHANGED <<env, rules, rawDiff, pc, diff, excludedFiles, changedFiles, asked, answered,
                 runnableRules, calls, settled, result, sorted, reported, exitCode>>

SpecSort == InitSort /\ [][CallSortDiagnostics]_vars

(* ------------------------------------------------------------------ *)
(* scanDiffForSecrets on bounded inputs                                 *)
(* ------------------------------------------------------------------ *)
ScanLinePool ==
  {Hdr("src/a.ts"), Hdr("docs/readme.md"), BadHdr, Hunk(3), Add("password=hunter2hunter2"),
   Add("plain"), Ctx, Del}

RECURSIVE TextsOf(_, _)
\* the texts of 1..n lines of the pool
TextsOf(pool, n) ==
  IF n = 1 THEN {<<l>> : l \in pool}
  ELSE TextsOf(pool, n - 1) \cup {Append(q, l) : q \in {x \in TextsOf(pool, n - 1) : Len(x) = n - 1},
                                                  l \in pool}

InitScan ==
  /\ InitIdle
  /\ \E d \in TextsOf(ScanLinePool, MaxScanLines), ap \in AllowLists, af \in AllowFileLists :
       fin = [diff |-> d, allowPatterns |-> ap, allowFiles |-> af]
  /\ fout = <<>>

CallScanDiffForSecrets ==
  /\ fout = <<>>
  /\ fout' = <<scanDiffForSecretsAllowFiles(fin.diff, fin.allowPatterns, fin.allowFiles)>>
  /\ UNCHANGED <<fin, env, rules, rawDiff, pc, diff, excludedFiles, changedFiles, asked, answered,
                 runnableRules, calls, settled, result, sorted, reported, exitCode>>

SpecScan == InitScan /\ [][CallScanDiffForSecrets]_vars


(* ------------------------------------------------------------------ *)
(* scanDiffForSecrets(diff, allowPatterns) on diffs that also hold the  *)
(* lines that start with "+++"                                          *)
(* ------------------------------------------------------------------ *)
InitScanLines ==
  /\ InitIdle
  /\ \E d \in TextsOf(ScanLinePool \cup {Line("newside", "src/a.ts", "", 0),
                                          Add("++password=hunter2hunter2")}, MaxScanLines),
        ap \in AllowLists :
       fin = [diff |-> d, allowPatterns |-> ap]
  /\ fout = <<>>

CallScanDiffForSecretsLines ==
  /\ fout = <<>>
  /\ fout' = <<scanDiffForSecrets(fin.diff, fin.allowPatterns)>>
  /\ UNCHANGED <<fin, env, rules, rawDiff, pc, diff, excludedFiles, changedFiles, asked, answered,
                 runnableRules, calls, settled, result, sorted, reported, exitCode>>

SpecScanLines == InitScanLines /\ [][CallScanDiffForSecretsLines]_vars


(* ------------------------------------------------------------------ *)
(* filterDiffByIgnoreRules on bounded inputs                            *)
(* ------------------------------------------------------------------ *)
FilterLinePool ==
  {Hdr("src/a.ts"), Hdr(".env"), Hdr("docs/readme.md"), BadHdr, Add("plain"), Ctx}

IgnoreFileSets ==
  { <<>>,
    <<IgnoreFile(TRUE, <<"# comment", "docs/**/*.md", "">>)>>,
    <<IgnoreFile(FALSE, <<"src/**/*.ts">>), IgnoreFile(TRUE, <<" ", "docs/**/*.md">>)>>,
    <<IgnoreFile(TRUE, <<"docs/**/*.md">>), IgnoreFile(TRUE, <<"src/**/*.ts">>)>>,
    <<IgnoreFile(TRUE, <<"!src/a.ts">>)>> }

InitFilter ==
  /\ InitIdle
  /\ \E d \in TextsOf(FilterLinePool, MaxFilterLines), ig \in IgnoreFileSets :
       fin = [diff |-> d, ignoreFiles |-> ig]
  /\ fout = <<>>

CallFilterDiffByIgnoreRules ==
  /\ fout = <<>>
  /\ fout' = <<filterDiffByIgnoreRules(fin.diff, readIgnorePatterns(fin.ignoreFiles))>>
  /\ UNCHANGED <<fin, env, rules, rawDiff, pc, diff, excludedFiles, changedFiles, asked, answered,
                 runnableRules, calls, settled, result, sorted, reported, exitCode>>

SpecFilter == InitFilter /\ [][CallFilterDiffByIgnoreRules]_vars

(* ------------------------------------------------------------------ *)
(* splitDiffIntoFileChunks on bounded inputs                            *)
(* ------------------------------------------------------------------ *)
DiffLinePool ==
  {Hdr("src/a.ts"), Hdr("docs/readme.md"), BadHdr, Add("TODO"), BlankLine, Ctx}

InitSplit ==
  /\ InitIdle
  /\ \E d \in TextsOf(DiffLinePool, MaxDiffLines) : fin = [diff |-> d]
  /\ fout = <<>>

CallSplitDiffIntoFileChunks ==
  /\ fout = <<>>
  /\ fout' = <<splitDiffIntoFileChunks(fin.diff)>>
  /\ UNCHANGED <<fin, env, rules, rawDiff, pc, diff, excludedFiles, changedFiles, asked, answered,
                 runnableRules, calls, settled, result, sorted, reported, exitCode>>

SpecSplit == InitSplit /\ [][CallSplitDiffIntoFileChunks]_vars

(* ------------------------------------------------------------------ *)
(* buildScopedDiff on bounded inputs                                    *)
(* ------------------------------------------------------------------ *)
ScopedRules ==
  { Rule("A", Omitted, Omitted, Omitted),
    Rule("A", Given(<<"src/**/*.ts">>), Omitted, Omitted),
    Rule("A", Given(<<"docs/**/*.md">>), Given(<<"**/*.test.ts">>), Omitted),
    Rule("A", Given(<<>>), Given(<<"src/**/*.ts">>), Omitted) }

\* the callers pass the changed files of the diff they pass
InitScoped ==
  /\ InitIdle
  /\ \E r \in ScopedRules, d \in TextsOf(DiffLinePool, MaxDiffLines), gg \in GlobalGlobs :
       fin = [rule |-> r, fullDiff |-> d, changedFiles |-> extractChangedFilesFromDiff(d),
              globalIncludeGlobs |-> gg.inc, globalExcludeGlobs |-> gg.exc]
  /\ fout = <<>>

CallBuildScopedDiff ==
  /\ fout = <<>>
  /\ fout' = <<buildScopedDiff(fin.rule, fin.fullDiff, fin.changedFiles,
                               fin.globalIncludeGlobs, fin.globalExcludeGlobs)>>
  /\ UNCHANGED <<fin, env, rules, rawDiff, pc, diff, excludedFiles, changedFiles, asked, answered,
                 runnableRules, calls, settled, result, sorted, reported, exitCode>>

SpecScoped == InitScoped /\ [][CallBuildScopedDiff]_vars

(* ------------------------------------------------------------------ *)
(* shouldRunRule on bounded inputs                                      *)
(* ------------------------------------------------------------------ *)
RegexPool == {"TODO", "zzz", "("}

RECURSIVE RegexLists(_)
RegexLists(n) ==
  IF n = 0 THEN {<<>>}
  ELSE RegexLists(n - 1) \cup {Append(q, r) : q \in {x \in RegexLists(n - 1) : Len(x) = n - 1},
                                              r \in RegexPool}

InitGate ==
  /\ InitIdle
  /\ \E rx \in {Omitted} \cup {Given(l) : l \in RegexLists(MaxRegexes)},
        inc \in {Omitted, Given(<<"docs/**/*.md">>)},
        d \in TextsOf(DiffLinePool, MaxDiffLines) :
       fin = [rule |-> Rule("A", inc, Omitted, rx), diff |-> d,
              changedFiles |-> extractChangedFilesFromDiff(d)]
  /\ fout = <<>>

\* runSemlint's filter: shouldRunRule(rule, changedFiles, diff)
CallShouldRunRule ==
  /\ fout = <<>>
  /\ fout' = <<shouldRunRule(fin.rule, fin.changedFiles, fin.diff, <<>>, <<>>)>>
  /\ UNCHANGED <<fin, env, rules, rawDiff, pc, diff, excludedFiles, changedFiles, asked, answered,
                 runnableRules, calls, settled, result, sorted, reported, exitCode>>

SpecGate == InitGate /\ [][CallShouldRunRule]_vars

(* ------------------------------------------------------------------ *)
(* Claims                                                               *)
(* ------------------------------------------------------------------ *)
(* redactSample on bounded inputs                                       *)
(* ------------------------------------------------------------------ *)
InitRedact ==
  /\ InitIdle
  /\ \E sample \in {<<>>, detectedValue("password=hunter2hunter2"),
                    detectedValue("AKIA0123456789ABCDEF")}
                     \cup TextsOf({"k", "7", " "}, MaxSample) :
       fin = [sample |-> sample]
  /\ fout = <<>>

CallRedactSample ==
  /\ fout = <<>>
  /\ fout' = <<redactSample(fin.sample)>>
  /\ UNCHANGED <<fin, env, rules, rawDiff, pc, diff, excludedFiles, changedFiles, asked, answered,
                 runnableRules, calls, settled, result, sorted, reported, exitCode>>

SpecRedact == InitRedact /\ [][CallRedactSample]_vars


(* ------------------------------------------------------------------ *)
(* extractFirstJsonObject on bounded inputs                             *)
(* ------------------------------------------------------------------ *)
extractFirstJsonObjectCountsBracesInStrings(raw) ==
  LET RECURSIVE loop(_, _, _, _, _)
      loop(i, start, depth, inString, escaped) ==
        IF i > Len(raw) THEN Undefined
        ELSE LET ch == raw[i] IN
          IF start = 0
          THEN IF ch = "{" THEN loop(i + 1, i, 1, inString, escaped)
               ELSE loop(i + 1, start, depth, inString, escaped)
          ELSE IF inString
          THEN IF escaped THEN loop(i + 1, start, depth, inString, FALSE)
               ELSE IF ch = "\\" THEN loop(i + 1, start, depth, inString, TRUE)
               ELSE IF ch = "\"" THEN loop(i + 1, start, depth, FALSE, escaped)
               ELSE loop(i + 1, start, depth, inString, escaped)
          ELSE IF FALSE THEN loop(i + 1, start, depth, TRUE, escaped)
          ELSE IF ch = "{" THEN loop(i + 1, start, depth + 1, inString, escaped)
          ELSE IF ch = "}"
          THEN IF depth - 1 = 0 THEN SubSeq(raw, start, i)
               ELSE loop(i + 1, start, depth - 1, inString, escaped)
          ELSE loop(i + 1, start, depth, inString, escaped)
  IN loop(1, 0, 0, FALSE, FALSE)

\* extractFirstJsonObject: the scan of the characters of raw with start (0 for the
\* source's -1, positions being 1-based here), depth, inString and escaped
extractFirstJsonObject(raw) ==
  LET RECURSIVE loop(_, _, _, _, _)
      loop(i, start, depth, inString, escaped) ==
        IF i > Len(raw) THEN Undefined
        ELSE LET ch == raw[i] IN
          IF start = 0
          THEN IF ch = "{" THEN loop(i + 1, i, 1, inString, escaped)
               ELSE loop(i + 1, start, depth, inString, escaped)
          ELSE IF inString
          THEN IF escaped THEN loop(i + 1, start, depth, inString, FALSE)
               ELSE IF ch = "\\" THEN loop(i + 1, start, depth, inString, TRUE)
               ELSE IF ch = "\"" THEN loop(i + 1, start, depth, FALSE, escaped)
               ELSE loop(i + 1, start, depth, inString, escaped)
          ELSE IF ch = "\"" THEN loop(i + 1, start, depth, TRUE, escaped)
          ELSE IF ch = "{" THEN loop(i + 1, start, depth + 1, inString, escaped)
          ELSE IF ch = "}"
          THEN IF depth - 1 = 0 THEN SubSeq(raw, start, i)
               ELSE loop(i + 1, start, depth - 1, inString, escaped)
          ELSE loop(i + 1, start, depth, inString, escaped)
  IN loop(1, 0, 0, FALSE, FALSE)

InitExtract ==
  /\ InitIdle
  /\ \E raw \in {<<>>} \cup TextsOf({"{", "}", "\"", "\\", "x"}, MaxOutputLen) : fin = [raw |-> raw]
  /\ fout = <<>>

CallExtractFirstJsonObject ==
  /\ fout = <<>>
  /\ fout' = <<extractFirstJsonObject(fin.raw)>>
  /\ UNCHANGED <<fin, env, rules, rawDiff, pc, diff, excludedFiles, changedFiles, asked, answered,
                 runnableRules, calls, settled, result, sorted, reported, exitCode>>

SpecExtract == InitExtract /\ [][CallExtractFirstJsonObject]_vars


(* ------------------------------------------------------------------ *)
guardTripped ==
  /\ diff # <<>>
  /\ env.secretGuard
  /\ Len(scanDiffForSecretsAllowFiles(diff, env.allowPatterns, env.allowFiles)) > 0

\* C1: when the secret guard is enabled and the scan of the filtered diff has a
\* finding, the run goes nowhere but to its end with exit code 2: no backend process
\* is spawned, no confirmation is asked and no diagnostics report is written.
C1_SecretGuardBlocksRun ==
  guardTripped =>
    /\ pc \in {"guard", "done"}
    /\ (pc = "done" => exitCode = 2)
    /\ calls = <<>>
    /\ ~asked
    /\ ~reported

C1_Witness == guardTripped /\ pc = "done" /\ exitCode = 2

blockingFor(diagnostics, failOn) ==
  \/ failOn = "warn" /\ \E i \in 1..Len(diagnostics) : diagnostics[i].severity \in {"warn", "error"}
  \/ failOn = "error" /\ \E i \in 1..Len(diagnostics) : diagnostics[i].severity = "error"

\* C2: a completed run exits 2 whenever backendErrors > 0, else 1 when a diagnostic
\* is blocking for the configured threshold, else 0.
C2_ExitCode ==
  (pc = "done" /\ reported) =>
    exitCode = IF result.backendErrors > 0 THEN 2
               ELSE IF blockingFor(sorted, env.failOn) THEN 1 ELSE 0

C2_Witness ==
  /\ pc = "done" /\ reported
  /\ result.backendErrors > 0
  /\ blockingFor(sorted, env.failOn)
  /\ exitCode = 2

\* C3: without a terminal, one backend invocation goes: primary attempt; if it
\* succeeds, nothing more is spawned; if it fails (for whatever reason), exactly one
\* retry with the strict-JSON instruction appended to the same prompt; after the
\* retry the invocation settles, so at most two processes are spawned.
C3_RetryPolicy ==
  [][ ~canUseInteractiveRecovery(env) =>
        \A i \in 1..Len(calls) :
          LET c == calls[i]
              d == calls'[i]
              p == c.prompt
          IN /\ (c.pc = "attempt1" /\ d # c) =>
                  \/ d.pc = "ok" /\ d.spawned = <<Spawned("machine", p)>>
                  \/ /\ d.pc = "attempt2"
                     /\ d.firstError \in FailKinds
                     /\ ~p.strict
                     /\ d.spawned = <<Spawned("machine", p),
                                      Spawned("machine", [p EXCEPT !.strict = TRUE])>>
             /\ (c.pc = "attempt2" /\ d # c) => d.pc \in {"ok", "error"} /\ d.spawned = c.spawned
             /\ (c.pc \in {"ok", "error"}) => d = c
             /\ Len(d.spawned) <= 2 ]_vars

C3_Witness ==
  /\ ~canUseInteractiveRecovery(env)
  /\ \E i \in 1..Len(calls) :
       /\ calls[i].pc = "error"
       /\ Len(calls[i].spawned) = 2
       /\ calls[i].spawned[2].prompt.strict

\* C4: in parallel mode the result counts exactly the rules whose invocation failed
\* and holds, in rule order, the normalized diagnostics of the rules that succeeded;
\* a failed rule contributes none.
C4_ParallelPartialFailure ==
  (~env.batchMode /\ pc \in {"report", "done"} /\ Len(calls) > 0) =>
    /\ result.backendErrors = Cardinality({i \in 1..Len(calls) : calls[i].pc = "error"})
    /\ result.diagnostics =
         flatten([i \in 1..Len(calls) |->
                    IF calls[i].pc = "ok"
                    THEN normalizeDiagnostics(runnableRules[i].id, calls[i].out, env.repoRoot)
                    ELSE <<>>])

C4_Witness ==
  /\ ~env.batchMode /\ pc = "report" /\ Len(calls) >= 2
  /\ \E i, j \in 1..Len(calls) :
       /\ calls[i].pc = "error"
       /\ calls[j].pc = "ok" /\ calls[j].normalized # <<>>
  /\ result.backendErrors = 1

\* C5: the sorted diagnostics of a parallel dispatch are a function of the rules and
\* of what each rule's backend call returned, whatever the order the calls settled in.
C5_SettleOrderDoesNotLeak ==
  (~env.batchMode /\ pc = "done" /\ Len(calls) > 0) =>
    sorted = sortDiagnostics(
               flatten([i \in 1..Len(calls) |->
                          normalizeDiagnostics(runnableRules[i].id, calls[i].out, env.repoRoot)]))

C5_Witness ==
  /\ ~env.batchMode /\ pc = "done" /\ Len(calls) >= 2
  /\ settled[1] > settled[2]
  /\ calls[1].normalized # <<>> /\ calls[2].normalized # <<>>
  /\ compareDiagnostics(calls[1].normalized[1], calls[2].normalized[1]) = 0

regexGateClosed(rule, diffText) ==
  /\ rule.diff_regex.present
  /\ Len(rule.diff_regex.list) > 0
  /\ \A j \in 1..Len(rule.diff_regex.list) :
       regexInvalid(rule.diff_regex.list[j]) \/ ~regexTest(rule.diff_regex.list[j], diffText)

\* C6: no rule is dispatched (in parallel or batch mode) whose candidate file set,
\* computed with the rule's globs inheriting the configured global include/exclude
\* lists, is empty, or whose non-empty diff_regex list has no pattern matching the diff.
C6_NoDispatchWithoutCandidates ==
  \A i \in 1..Len(calls) : \A k \in 1..Len(rules) :
    (\E j \in 1..Len(calls[i].prompt.rules) : calls[i].prompt.rules[j] = rules[k].id) =>
      /\ Len(getRuleCandidateFiles(rules[k], changedFiles,
                                   env.rulesIncludeGlobs, env.rulesExcludeGlobs)) > 0
      /\ ~regexGateClosed(rules[k], diff)

\* C7: getRuleCandidateFiles returns, in changedFiles order, the changed files that
\* match the effective include list when it is non-empty and no glob of the effective
\* exclude list when it is non-empty; the effective list is the rule's own whenever
\* the key is present (even empty) and the global one only when it is omitted; when
\* the include filter leaves nothing the result is empty.
C7_CandidateFiles ==
  fout # <<>> =>
    LET inc == IF fin.rule.include_globs.present THEN fin.rule.include_globs.list
               ELSE fin.globalIncludeGlobs
        exc == IF fin.rule.exclude_globs.present THEN fin.rule.exclude_globs.list
               ELSE fin.globalExcludeGlobs
        keep(f) == /\ (Len(inc) > 0 => \E i \in 1..Len(inc) : globMatches(inc[i], f))
                   /\ (Len(exc) > 0 => ~\E i \in 1..Len(exc) : globMatches(exc[i], f))
    IN /\ fout[1] = SelectSeq(fin.changedFiles, keep)
       /\ (Len(inc) > 0 /\ (\A k \in 1..Len(fin.changedFiles) :
                              ~\E i \in 1..Len(inc) : globMatches(inc[i], fin.changedFiles[k])))
            => fout[1] = <<>>

C7_Witness ==
  /\ fout # <<>>
  /\ fin.rule.include_globs = Given(<<>>)
  /\ fin.rule.exclude_globs = Omitted
  /\ fin.globalIncludeGlobs = <<"src/**/*.ts">>
  /\ fin.globalExcludeGlobs = <<"**/*.test.ts">>
  /\ fin.changedFiles = <<"src/a.ts", "src/a.test.ts", "docs/readme.md">>
  /\ fout[1] = <<"src/a.ts", "docs/readme.md">>

\* C8: runBatchDispatch makes exactly one backend invocation whatever the number of
\* runnable rules, and when it fails the result is backendErrors = 1 with no diagnostics.
C8_BatchSingleInvocation ==
  (env.batchMode /\ pc \in {"await", "report", "done"}) =>
    /\ Len(calls) = 1
    /\ (pc # "await" /\ calls[1].pc = "error") =>
         result = [diagnostics |-> <<>>, backendErrors |-> 1]

C8_Witness ==
  /\ env.batchMode /\ pc = "report"
  /\ Len(runnableRules) >= 2
  /\ calls[1].pc = "error"
  /\ result.backendErrors = 1

dispatchedIds == {runnableRules[k].id : k \in 1..Len(runnableRules)}

\* a raw diagnostic batch dispatch has to drop: no plain object with a string
\* rule_id, or the rule_id of no dispatched rule
undispatchable(d) == ~d.obj \/ d.rule_id.t # "string" \/ d.rule_id.s \notin dispatchedIds

\* C9: in batch mode a raw diagnostic that is no plain object with a string rule_id,
\* or whose rule_id is not a dispatched rule's, is not in the result and costs no
\* backend error; what the response holds for the dispatched rules is normalized and
\* returned as if the dropped entries were not there.
C9_BatchDropsForeign ==
  (env.batchMode /\ pc \in {"report", "done"} /\ Len(calls) = 1 /\ calls[1].pc = "ok") =>
    /\ result.backendErrors = 0
    /\ \A j \in 1..Len(result.diagnostics) : result.diagnostics[j].rule_id \in dispatchedIds
    /\ result.diagnostics =
         flatten([k \in 1..Len(runnableRules) |->
                    normalizeDiagnostics(runnableRules[k].id,
                                         SelectSeq(calls[1].out, LAMBDA d : ~undispatchable(d)),
                                         env.repoRoot)])

C9_Witness ==
  /\ env.batchMode /\ pc = "report" /\ Len(calls) = 1 /\ calls[1].pc = "ok"
  /\ \E j \in 1..Len(calls[1].out) : ~calls[1].out[j].obj
  /\ Len(result.diagnostics) >= 2

\* the normalized form of a kept raw entry: optional fields survive only well-typed
keptForm(raw) ==
  LET posInt(v) == v.t = "number" /\ v.n % 2 = 0 /\ v.n \div 2 >= 1
  IN [rule_id |-> raw.rule_id.s, severity |-> raw.severity.s, message |-> raw.message.s,
      file |-> raw.file.s, line |-> raw.line.n \div 2,
      column |-> IF posInt(raw.column) THEN raw.column ELSE Undef,
      end_line |-> IF posInt(raw.end_line) THEN raw.end_line ELSE Undef,
      end_column |-> IF posInt(raw.end_column) THEN raw.end_column ELSE Undef,
      evidence |-> IF raw.evidence.t = "string" THEN raw.evidence ELSE Undef,
      confidence |-> IF raw.confidence.t = "number" THEN raw.confidence ELSE Undef]

\* the entries the claim keeps; blank is the set of texts that count as empty
keptEntries(blank) ==
  LET base == IF fin.resolveRoot \in {Undefined, ""} THEN "cwd" ELSE fin.resolveRoot
      valid(raw) ==
        /\ raw.obj
        /\ raw.rule_id = Str(fin.ruleId)
        /\ raw.file.t = "string" /\ raw.file.s \notin blank
        /\ raw.message.t = "string" /\ raw.message.s \notin blank
        /\ raw.severity.t = "string" /\ raw.severity.s \in {"error", "warn", "info"}
        /\ raw.line.t = "number" /\ raw.line.n % 2 = 0 /\ raw.line.n \div 2 >= 1
        /\ existsSync(base, raw.file.s)
      kept == SelectSeq(fin.diagnostics, valid)
  IN [i \in 1..Len(kept) |-> keptForm(kept[i])]

\* C10 as stated: normalizeDiagnostics returns, in input order, the entries that are
\* plain objects with rule_id equal to ruleId, non-empty string file and message, a
\* valid severity, a positive integer line and a file existing under the resolve root.
C10_KeepsNonEmpty == fout # <<>> => fout[1] = keptEntries({""})

\* C10 amended: as above, with file and message non-empty after trimming white space;
\* ill-typed optional fields are stripped and the entry kept.
C10_Normalize == fout # <<>> => fout[1] = keptEntries({"", " "})

C10_Witness ==
  /\ fout # <<>>
  /\ Len(fin.diagnostics) = 2
  /\ fin.diagnostics[1].line = Num(0)
  /\ fin.diagnostics[2].column = Str("4")
  /\ Len(fout[1]) = 1
  /\ fout[1][1].column = Undef


sortKey(d) == <<d.file, d.line, d.severity>>

\* file ascending, then line ascending, then severity descending
keyBefore(a, b) ==
  \/ fileRank(a.file) < fileRank(b.file)
  \/ a.file = b.file /\ a.line < b.line
  \/ a.file = b.file /\ a.line = b.line /\ SEVERITY_ORDER(a.severity) >= SEVERITY_ORDER(b.severity)

\* C11: sortDiagnostics returns a permutation of its input ordered by file ascending,
\* then line ascending, then severity descending; the input list is left as it was and
\* diagnostics equal on the three keys keep their input order.
C11_SortDiagnostics ==
  fout # <<>> =>
    LET out == fout[1]
        inp == fin.before
    IN /\ fin.input = inp
       /\ Len(out) = Len(inp)
       /\ \A i, j \in 1..Len(out) : i < j => keyBefore(out[i], out[j])
       /\ \A k \in 1..Len(inp) :
            SelectSeq(out, LAMBDA d : sortKey(d) = sortKey(inp[k]))
              = SelectSeq(inp, LAMBDA d : sortKey(d) = sortKey(inp[k]))

C11_Witness ==
  /\ fout # <<>>
  /\ fin.before = <<Diag("src/a.ts", 2, "warn", "n"), Diag("src/a.ts", 2, "error", "m"),
                    Diag("src/a.ts", 2, "warn", "m")>>
  /\ fout[1] = <<Diag("src/a.ts", 2, "error", "m"), Diag("src/a.ts", 2, "warn", "n"),
                 Diag("src/a.ts", 2, "warn", "m")>>


chunkFileOf(text, i) ==
  LET hs == {j \in 1..i : text[j].k \in {"hdr", "badhdr"}}
  IN IF hs = {} THEN ""
     ELSE LET h == CHOOSE j \in hs : \A k \in hs : k <= j
          IN IF text[h].k = "hdr" THEN text[h].p ELSE ""

\* the combined matcher: a pattern line of an existing ignore file or a built-in glob
ignoreMatcher(f) ==
  \/ \E i \in 1..Len(fin.ignoreFiles) : \E k \in 1..Len(fin.ignoreFiles[i].lines) :
       /\ fin.ignoreFiles[i].exists
       /\ fin.ignoreFiles[i].lines[k] \notin {"", " ", "# comment"}
       /\ globMatches(fin.ignoreFiles[i].lines[k], f)
  \/ \E i \in 1..Len(BUILTIN_SENSITIVE_GLOBS) : globMatches(BUILTIN_SENSITIVE_GLOBS[i], f)

C14_SplitRoundTrip ==
  fout # <<>> =>
    /\ \A i \in 1..Len(fout[1]) : Len(fout[1][i].chunk) >= 1
    /\ joinTexts([i \in 1..Len(fout[1]) |-> fout[1][i].chunk]) = fin.diff

C14_Witness ==
  /\ fout # <<>>
  /\ fin.diff = <<Ctx, Hdr("src/a.ts"), BadHdr, BlankLine>>
  /\ Len(fout[1]) = 3
  /\ fout[1][1].file = "" /\ fout[1][2].file = "src/a.ts" /\ fout[1][3].file = ""


\* C15: buildScopedDiff returns, in original order, exactly the lines of the chunks
\* whose file is one of the rule's candidate files (no preamble chunk, no chunk of
\* another file); when there is no such chunk it returns the whole diff it was given;
\* for a diff that is not blank the result is not blank.
C15_ScopedDiff ==
  fout # <<>> =>
    LET d == fin.fullDiff
        cand == getRuleCandidateFiles(fin.rule, fin.changedFiles,
                                      fin.globalIncludeGlobs, fin.globalExcludeGlobs)
        inScope(i) == /\ chunkFileOf(d, i) # ""
                      /\ \E k \in 1..Len(cand) : cand[k] = chunkFileOf(d, i)
        scopedLines == SelectSeq([i \in 1..Len(d) |-> [at |-> i, l |-> d[i]]],
                                 LAMBDA x : inScope(x.at))
    IN /\ fout[1] = IF Len(scopedLines) = 0 THEN d
                    ELSE [i \in 1..Len(scopedLines) |-> scopedLines[i].l]
       /\ (\E i \in 1..Len(d) : d[i].k # "blank") => (\E i \in 1..Len(fout[1]) : fout[1][i].k # "blank")

C15_Witness ==
  /\ fout # <<>>
  /\ fin.rule.include_globs = Given(<<"src/**/*.ts">>)
  /\ fin.fullDiff = <<Ctx, Hdr("src/a.ts"), Add("TODO"), Hdr("docs/readme.md")>>
  /\ fout[1] = <<Hdr("src/a.ts"), Add("TODO")>>


\* C16: every machine-mode attempt runs under its own timer of timeoutMs started at
\* its spawn: it never runs longer, a kill by the timer is a failed attempt that the
\* retry policy handles as any other failure, and a retried attempt starts with no
\* time elapsed whatever the attempt before it consumed.
C16_TimeoutPerAttempt ==
  [][ \A i \in 1..Len(calls) :
        LET c == calls[i]
            d == calls'[i]
        IN /\ machineRunning(c) => c.elapsed <= env.timeoutMs
           /\ (machineRunning(c) /\ c.elapsed = env.timeoutMs /\ d # c) => d.pc # c.pc
           /\ (machineRunning(c) /\ machineRunning(d) /\ d.pc # c.pc) =>
                d.elapsed = 0 /\ Len(d.spawned) = Len(c.spawned) + 1
           /\ (c.pc = "attempt1" /\ d.firstError = "timeout") =>
                /\ c.elapsed = env.timeoutMs
                /\ d.pc = "attempt2"
                /\ d.spawned = Append(c.spawned, Spawned("machine", retryPromptOf(c.prompt)))
           /\ (c.pc = "interactive" /\ d.pc = "attempt3") => d.elapsed = 0 ]_vars

C16_Witness ==
  \E i \in 1..Len(calls) :
    /\ calls[i].pc = "attempt2"
    /\ calls[i].firstError = "timeout"
    /\ calls[i].used = env.timeoutMs
    /\ calls[i].elapsed = env.timeoutMs
    /\ env.timeoutMs = MaxTimeout


\* C17: in parallel mode the calls of all runnable rules are started in one step,
\* before any of them has settled; a step in which one rule's call fails, times out
\* or otherwise moves on leaves every other rule's call as it was; and
\* runParallelDispatch returns only when every call has settled.
C17_ParallelNoCancel ==
  [][ ~env.batchMode =>
        /\ (pc = "dispatch" /\ pc' = "await") =>
             /\ Len(calls') = Len(runnableRules)
             /\ settled' = <<>>
             /\ \A i \in 1..Len(calls') :
                  /\ calls'[i].pc = "attempt1"
                  /\ calls'[i].prompt.rules = <<runnableRules[i].id>>
                  /\ calls'[i].spawned = <<Spawned("machine", calls'[i].prompt)>>
        /\ (pc = "await") =>
             \A i, j \in 1..Len(calls) :
               (i # j /\ calls'[i].pc # calls[i].pc) =>
                 calls'[j].pc = calls[j].pc /\ calls'[j].spawned = calls[j].spawned
        /\ (pc = "await" /\ pc' # "await") =>
             \A i \in 1..Len(calls) : calls[i].pc \in {"ok", "error"} ]_vars

C17_Witness ==
  /\ ~env.batchMode /\ pc = "await" /\ Len(calls) >= 2
  /\ calls[1].pc = "error"
  /\ calls[2].pc = "attempt1"
  /\ settled = <<1>>


\* C18: within one backend invocation an interactive passthrough run is started only
\* after the primary attempt and the strict retry have both failed, neither with
\* ENOENT, and with the process attached to a terminal; it is followed by exactly one
\* further machine-mode attempt with the original prompt, whose outcome is final; when a
\* failure was ENOENT nothing more is spawned after the strict retry and the
\* invocation ends as a backend error.
C18_InteractiveRecovery ==
  [][ \A i \in 1..Len(calls) :
        LET c == calls[i]
            d == calls'[i]
        IN /\ (c.pc # "interactive" /\ d.pc = "interactive") =>
                /\ c.pc = "attempt2"
                /\ Len(c.spawned) = 2
                /\ ~isEnoentError(c.firstError)
                /\ ~isEnoentError(d.secondError)
                /\ canUseInteractiveRecovery(env)
                /\ d.spawned = Append(c.spawned, Spawned("interactive", c.prompt))
           /\ (c.pc = "interactive" /\ d # c) =>
                /\ d.pc = "attempt3"
                /\ d.spawned = Append(c.spawned, Spawned("machine", c.prompt))
           /\ (c.pc = "attempt3" /\ d # c) =>
                d.pc \in {"ok", "error"} /\ d.spawned = c.spawned
           /\ (c.pc = "attempt2" /\ isEnoentError(c.firstError) /\ d # c) =>
                d.pc \in {"ok", "error"} /\ d.spawned = c.spawned
           /\ (c.pc = "attempt2" /\ d.pc = "attempt2") => d = c
           /\ Len(d.spawned) <= 4 ]_vars


\* C19: a rule whose diff_regex list holds an invalid pattern does not run, whatever
\* the other patterns of the list are and wherever the invalid one stands in it.
C19_InvalidRegexFailsClosed ==
  fout # <<>> =>
    ((\E j \in 1..Len(fin.rule.diff_regex.list) : regexInvalid(fin.rule.diff_regex.list[j]))
       => fout[1] = FALSE)

\* C20: a run ended by the secret guard returns an exit code that is neither the
\* code of a reported run with a backend error nor the code of a reported run whose
\* only trouble is a blocking diagnostic.
C20_GuardOutcomeDistinct ==
  (pc = "done" /\ guardTripped) =>
    /\ exitCode # exitCodeOf(1, <<>>, env.failOn)
    /\ exitCode # exitCodeOf(0, <<Diag("src/a.ts", 1, "error", "m")>>, "error")

RECURSIVE trimmed(_)
\* the text without its leading and trailing spaces
trimmed(text) ==
  IF text = <<>> THEN <<>>
  ELSE IF Head(text) = " " THEN trimmed(Tail(text))
  ELSE IF text[Len(text)] = " " THEN trimmed(SubSeq(text, 1, Len(text) - 1))
  ELSE text

\* C21: the redacted sample is the mask "***" alone when the trimmed text has at most
\* 6 characters; otherwise it has 7 characters: the first two of the trimmed text,
\* the mask, and its last two, and nothing else of the text.
C21_RedactSample ==
  fout # <<>> =>
    LET t == trimmed(fin.sample)
        r == fout[1]
    IN IF Len(t) <= 6 THEN r = <<"*", "*", "*">>
       ELSE /\ Len(r) = 7
            /\ r[1] = t[1] /\ r[2] = t[2]
            /\ r[3] = "*" /\ r[4] = "*" /\ r[5] = "*"
            /\ r[6] = t[Len(t) - 1] /\ r[7] = t[Len(t)]

C21_Witness ==
  /\ fout # <<>>
  /\ fin.sample = detectedValue("password=hunter2hunter2")
  /\ fout[1] = <<"p", "a", "*", "*", "*", "r", "2">>

\* an added line of the diff: it starts with "+" and is not the "+++ b/path" line
isAddedLine(line) == line.k = "add"

\* some compilable allow pattern matches the added text
allowedText(allowPatterns, text) ==
  \E j \in 1..Len(allowPatterns) : ~regexInvalid(allowPatterns[j]) /\ lineMatches(allowPatterns[j], text)

\* the positions of the added lines that no allow pattern covers and a detector matches
secretLines(text, allowPatterns) ==
  {i \in 1..Len(text) : /\ isAddedLine(text[i])
                         /\ ~allowedText(allowPatterns, text[i].t)
                         /\ detectorKind(text[i].t) # Undefined}

\* C22: scanDiffForSecrets records exactly one finding for every added line (the
\* "+++" file-header line is not one) that matches no allow pattern and that a
\* detector matches, in the order of the lines, and no finding for any other line.
C22_ScansEveryAddedLine ==
  fout # <<>> =>
    /\ Len(fout[1]) = Cardinality(secretLines(fin.diff, fin.allowPatterns))
    /\ \A j \in 1..Len(fout[1]) :
         \E i \in secretLines(fin.diff, fin.allowPatterns) :
           /\ Cardinality({h \in secretLines(fin.diff, fin.allowPatterns) : h < i}) = j - 1
           /\ fout[1][j].kind = detectorKind(fin.diff[i].t)

\* the new-side path of the last parsable file header before line i
fileAt(text, i) ==
  LET hs == {h \in 1..(i - 1) : text[h].k = "hdr"}
  IN IF hs = {} THEN "(unknown)"
     ELSE text[CHOOSE h \in hs : \A g \in hs : g <= h].p

\* the new-file line number of line i: N of the last hunk marker before it (1 when
\* there is none) plus the number of context and added lines in between
lineAt(text, i) ==
  LET ms == {h \in 1..(i - 1) : text[h].k = "hunk"}
      m == IF ms = {} THEN 0 ELSE CHOOSE h \in ms : \A g \in ms : g <= h
      seed == IF m = 0 THEN 1 ELSE text[m].n
  IN seed + Cardinality({h \in (m + 1)..(i - 1) : text[h].k = "ctx" \/ isAddedLine(text[h])})

\* C23: the finding of an added line carries the path of the most recent file header
\* and the new-file line number of that line: N of the last hunk marker, plus one for
\* every context line and every added line since, removed lines not counted.
C23_FindingFileAndLine ==
  fout # <<>> =>
    \A j \in 1..Len(fout[1]) :
      \E i \in secretLines(fin.diff, fin.allowPatterns) :
        /\ Cardinality({h \in secretLines(fin.diff, fin.allowPatterns) : h < i}) = j - 1
        /\ fout[1][j].file = fileAt(fin.diff, i)
        /\ fout[1][j].line = lineAt(fin.diff, i)

\* C24: a line that starts with "diff --git " but has no extractable paths starts no
\* chunk: only the first chunk can begin with such a line (when the diff does), and a
\* chunk that holds one after a parsable header keeps the file of that header.
C24_BadHeaderStartsNoChunk ==
  fout # <<>> =>
    /\ \A j \in 2..Len(fout[1]) : fout[1][j].chunk[1].k # "badhdr"
    /\ \A j \in 1..Len(fout[1]) :
         fout[1][j].file = IF fout[1][j].chunk[1].k = "hdr" THEN fout[1][j].chunk[1].p ELSE ""

\* C25 as stated: no two chunks of the result have the same non-empty file value,
\* whatever the input diff is.
C25_UniqueFiles ==
  fout # <<>> =>
    \A j, k \in 1..Len(fout[1]) :
      (j < k /\ fout[1][j].file # "") => fout[1][j].file # fout[1][k].file

\* C25, amended: the result has one chunk per parsable file header, carrying the
\* path of that header: no two chunks have the same non-empty file value when no
\* path has two headers, and a path with two headers has two chunks (no merging).
C25_OneChunkPerHeader ==
  fout # <<>> =>
    \A p \in {"src/a.ts", "docs/readme.md"} :
      Cardinality({j \in 1..Len(fout[1]) : fout[1][j].file = p})
        = Cardinality({i \in 1..Len(fin.diff) : fin.diff[i].k = "hdr" /\ fin.diff[i].p = p})

C25_Witness ==
  /\ fout # <<>>
  /\ fin.diff = <<Hdr("src/a.ts"), Add("TODO"), Hdr("src/a.ts"), Ctx>>
  /\ Len(fout[1]) = 2
  /\ fout[1][1].file = "src/a.ts" /\ fout[1][2].file = "src/a.ts"

RECURSIVE quoteMode(_, _, _)
\* where character k of raw stands, reading from the opening brace at s: outside a
\* string ("out"), inside one ("in"), or inside one right after a backslash ("esc")
quoteMode(raw, s, k) ==
  IF k = s + 1 THEN "out"
  ELSE LET before == quoteMode(raw, s, k - 1)
           ch == raw[k - 1]
       IN IF before = "esc" THEN "in"
          ELSE IF before = "in"
               THEN IF ch = "\\" THEN "esc" ELSE IF ch = "\"" THEN "out" ELSE "in"
               ELSE IF ch = "\"" THEN "in" ELSE "out"

\* the braces of s+1..e that count, opening ones minus closing ones
openBraces(raw, s, e) ==
  Cardinality({k \in (s + 1)..e : raw[k] = "{" /\ quoteMode(raw, s, k) = "out"})
    - Cardinality({k \in (s + 1)..e : raw[k] = "}" /\ quoteMode(raw, s, k) = "out"})

\* the positions of the closing braces that balance the opening brace at s
balancingEnds(raw, s) ==
  {e \in (s + 1)..Len(raw) :
     raw[e] = "}" /\ quoteMode(raw, s, e) = "out" /\ openBraces(raw, s, e) = -1}

\* C26: extractFirstJsonObject returns the substring from the first "{" to the first
\* "}" that balances it, braces inside double-quoted strings (backslash escapes
\* honoured) not counted, whatever precedes or follows; it returns nothing when there
\* is no "{" or the first "{" is never balanced.
C26_ExtractFirstJsonObject ==
  fout # <<>> =>
    LET opens == {i \in 1..Len(fin.raw) : fin.raw[i] = "{"}
        s == CHOOSE i \in opens : \A j \in opens : i <= j
        ends == balancingEnds(fin.raw, s)
    IN IF opens = {} THEN fout[1] = Undefined
       ELSE IF ends = {} THEN fout[1] = Undefined
       ELSE fout[1] = SubSeq(fin.raw, s, CHOOSE e \in ends : \A f \in ends : e <= f)

C26_Witness ==
  /\ fout # <<>>
  /\ fin.raw = <<"x", "{", "\"", "}", "\"", "}">>
  /\ fout[1] = <<"{", "\"", "}", "\"", "}">>

\* the chunks of a text, as a set
chunkSet(text) ==
  LET chunks == splitDiffIntoFileChunks(text) IN {chunks[j] : j \in 1..Len(chunks)}

\* C27: every prompt spawned in a run embeds chunks of the ignore-filtered diff only,
\* and no chunk of a file listed in excludedFiles: this holds for the per-rule
\* prompts, the batch prompt and the full-diff fallback alike.
C27_PromptsFromFilteredDiff ==
  \A embedded \in UNION {{calls[i].spawned[k].prompt.diff : k \in 1..Len(calls[i].spawned)} :
                           i \in 1..Len(calls)} :
        /\ chunkSet(embedded) \subseteq chunkSet(diff)
        /\ \A l \in 1..Len(embedded) :
             embedded[l].k = "hdr" => \A e \in 1..Len(excludedFiles) : excludedFiles[e] # embedded[l].p

C27_Witness ==
  /\ excludedFiles = <<".env">>
  /\ \E h \in 1..Len(rawDiff) : rawDiff[h] = Hdr(".env")
  /\ Len(calls) >= 1
  /\ \E i \in 1..Len(calls) :
       /\ Len(calls[i].spawned) >= 2
       /\ calls[i].spawned[1].prompt.diff = <<Hdr("docs/readme.md"), Hunk(1), Add("TODO")>>

\* C28: a backend process is spawned only in a run whose diff preview was confirmed,
\* by the auto-accept flag or by an interactive answer of y or yes; a run whose
\* preview was declined, or that has neither the flag nor a terminal, dispatches no
\* rule and ends with exit code 2.
C28_ConfirmBeforeSpawn ==
  /\ calls # <<>> => (env.autoAccept \/ (asked /\ answered \in {"y", "yes"}))
  /\ (asked /\ answered \notin {"y", "yes"}) =>
       pc = "done" /\ exitCode = 2 /\ calls = <<>> /\ runnableRules = <<>>
  /\ (~env.autoAccept /\ ~env.ioTTY) =>
       /\ ~asked /\ calls = <<>> /\ runnableRules = <<>>
       /\ pc \in {"start", "guard", "confirm", "done"}
       /\ pc = "done" => exitCode = 2

C28_Witness ==
  /\ ~env.autoAccept /\ asked /\ answered = "yes"
  /\ \E i \in 1..Len(calls) : Len(calls[i].spawned) >= 1

\* C29: during a parallel dispatch at most one interactive passthrough process is
\* running at any time.
C29_OneInteractiveAtATime ==
  ~env.batchMode => Cardinality({i \in 1..Len(calls) : calls[i].pc = "interactive"}) <= 1

====
